---- MODULE Spec2Model ----
(***************************************************************************)
(* Model of the deployer CLI (tarektaher/deployer).                        *)
(*                                                                         *)
(*  - Deployer.create / update / rollback (deployer.js) on one project:    *)
(*    the release directories, the `current` symlink, the compose          *)
(*    descriptors, the project's container and the metadata file.          *)
(*    Every handler is a sequence of blocking external calls; each call is *)
(*    one step, the handler's position is `pc`.                            *)
(*  - DatabaseService.provision (services/database.js): the provisioning   *)
(*    registry file and the engine-side account, for concurrent and        *)
(*    interrupted calls.                                                   *)
(*  - SecretsManager (services/secrets.js): key file and secret files.     *)
(***************************************************************************)
EXTENDS Integers, Sequences, FiniteSets, TLC

\* ------------------------------------------------------------------------
\* Bounds
\* ------------------------------------------------------------------------

\* Wall-clock seconds the model runs through; a version id is the second at
\* which generateVersion() was called.
MaxClock == 4

\* Number of status polls waitForHealth makes before its timeout elapses.
MaxPolls == 2

\* config.maxReleases as written in config.json (0: the key is absent).
ConfigMaxReleases == 2

\* ------------------------------------------------------------------------
\* Deployer state
\* ------------------------------------------------------------------------
VARIABLES
  clock,        \* wall clock, in seconds
  pc,           \* position of the running command ("idle": none running)
  op,           \* the command running or last run
  result,       \* outcome of the last finished command
  exists,       \* <projects>/<name> exists
  releases,     \* directory names under <project>/releases
  current,      \* target of <project>/current (0: no such link)
  tempLink,     \* target of <project>/current.new (0: no such link)
  compose,      \* build context named by docker-compose.yml
  composeNew,   \* build context named by docker-compose.new.yml
  image,        \* release the project's image was last built from (0: none)
  inst,         \* the container named <name>-app
  meta,         \* .deploy/metadata.json
  newVersion,   \* local of create/update
  oldRelease,   \* local of update: basename of realpath(current)
  targetVersion,\* local of rollback
  polls,        \* waitForHealth: polls made so far
  created,      \* history: a create of the project has completed
  pre,          \* history: `current` and the container when the command began
  sawDown,      \* history: no container was running at some step of the command
  gateRel,      \* history: release of the container the health gate observed
  gpc,          \* the clone step on its own: "none", "try", "caught", "done"
  gopt,         \* options.branch ("": undefined)
  gdef,         \* the default: 'main' in create, metadata.branch in update
  grepo,        \* the branches the repository has
  gfault,       \* the attempts (1, 2) at which git fails for another reason
  gtried,       \* the branches git clone was called with, in order
  gerr,         \* the error of the first attempt ("none": it succeeded)
  gres,         \* outcome of the clone step
  gactual,      \* local `actualBranch`
  plist         \* projects.json: currentVersion of the project's entry (0: no entry)

cloneVars == <<gpc, gopt, gdef, grepo, gfault, gtried, gerr, gres, gactual>>

\* What the lifecycle steps other than the registry updates leave alone.
sideVars == <<cloneVars, plist>>

varsD == <<clock, pc, op, result, exists, releases, current, tempLink, compose,
           composeNew, image, inst, meta, newVersion, oldRelease,
           targetVersion, polls, created, pre, sawDown, gateRel, cloneVars, plist>>

\* ------------------------------------------------------------------------
\* Database provisioning state (services/database.js)
\* ------------------------------------------------------------------------
VARIABLES
  registry,     \* registry.json: password recorded per engine kind and project (0: no entry)
  acct,         \* engine side: password of the project's account (0: no account)
  db,           \* engine side: the project's database exists, granted to the account
  envPw,        \* DB_PASSWORD written from the credentials a call returned (0: none)
  nextPw,       \* the next value generatePassword() returns
  ppc,          \* position of each provision call ("idle": none running)
  pkind,        \* dbType of the call
  pproj,        \* projectName of the call
  preg,         \* local `registry`: the file as the call loaded it
  pexist,       \* local `existingPassword` (0: undefined)
  ppw,          \* local `password` (0: not assigned yet)
  pres,         \* outcome of the call
  pgen,         \* history: the call has called generatePassword()
  pdrift,       \* history: the call began with an entry, an account and a failing login
  pafter,       \* history: the caller's previous call for the same database was interrupted
  presets,      \* history: password resets the call has issued to the engine
  drifted       \* history: the account's password has been changed outside the tool

varsP == <<registry, acct, db, envPw, nextPw, ppc, pkind, pproj, preg, pexist,
           ppw, pres, pgen, pdrift, pafter, presets, drifted>>

\* ------------------------------------------------------------------------
\* Secrets vault state (services/secrets.js)
\* ------------------------------------------------------------------------
VARIABLES
  keyFile,      \* content of .master-key (0: no such file)
  files,        \* secrets/<name>.enc: the blob stored under each name
  nextKey,      \* the next value crypto.randomBytes(KEY_LENGTH) returns
  vpc,          \* position of the running vault command ("idle": none running)
  vop,          \* the vault command running or last run
  vres,         \* outcome of the last vault command
  vname,        \* argument `name` of store
  vdata,        \* argument `data` of store
  vblob,        \* store: the blob encrypt() returned, not yet written
  vout,         \* what the last retrieve returned (0: nothing)
  rnames,       \* rotateKey: names still to go through in the running loop
  rsecrets,     \* rotateKey: local `secrets`, name -> decrypted data (0: not held)
  stored,       \* history: the data the last store(name, data) of a caller wrote (0: none)
  kpc,          \* concurrent store calls: position of each caller ("idle": none)
  kkey,         \* concurrent store calls: the key ensureKey() generated or read (0: none)
  kname,        \* concurrent store calls: argument `name`
  kdata,        \* concurrent store calls: argument `data`
  cstage,       \* encrypt/decrypt on its own: "input", "blob", "tampered", "done"
  cmk,          \* the master key encrypt ran under
  csalt,        \* the salt randomBytes() returned
  civ,          \* the iv randomBytes() returned
  cx,           \* the value given to encrypt
  cblob,        \* the blob, as encrypt returned it or as changed afterwards
  cdk,          \* the master key decrypt ran under (0: not run)
  cout,         \* what decrypt did: [ok, out]
  envNpm,       \* process.env: NPM_EMAIL, NPM_PASSWORD (0: unset or empty)
  vaultNpm,     \* the secret npm_credentials: [has, email, password]
  vaultOpens,   \* whether the file of npm_credentials opens under the key file
  legacyNpm,    \* config.json: [has, email, password] for npmEmail, npmPassword
  npmOut,       \* what the last getNpmCredentials() returned
  npmSrc,       \* what the last getCredentialSource() returned
  warned,       \* _legacyWarningShown
  migrated      \* what the last migrateLegacyCredentials() returned

keyVars == <<kpc, kkey, kname, kdata>>

cryptVars == <<cstage, cmk, csalt, civ, cx, cblob, cdk, cout>>

npmVars == <<envNpm, vaultNpm, vaultOpens, legacyNpm, npmOut, npmSrc, warned,
             migrated>>

varsV == <<keyFile, files, nextKey, vpc, vop, vres, vname, vdata, vblob, vout,
           rnames, rsecrets, stored, keyVars, cryptVars, npmVars>>

vars == <<varsD, varsP, varsV>>

\* A compose descriptor's build context: no file, ./current, or ./releases/<v>.
NoFile == -1
CurrentLink == 0

Versions == 1..MaxClock

NoInst == [ex |-> FALSE, rel |-> 0, up |-> FALSE]
NoMeta == [ex |-> FALSE, cur |-> 0, prev |-> 0, rb |-> FALSE]

\* getMaxReleases(): config.maxReleases || 5
getMaxReleases == IF ConfigMaxReleases # 0 THEN ConfigMaxReleases ELSE 5

MAX_RELEASES == getMaxReleases

\* generateVersion(): vYYYYMMDD.HHMMSS of the wall clock, one id per second.
generateVersion == clock

Max(S) == CHOOSE x \in S : \A y \in S : y <= x

\* releases.sort().reverse(): ids are fixed-width, so the order is numeric.
RECURSIVE SortDesc(_)
SortDesc(S) == IF S = {} THEN <<>>
               ELSE <<Max(S)>> \o SortDesc(S \ {Max(S)})

\* Mutation of cleanupReleases: the sort is not reversed, the oldest are kept.
cleanupReleases_KeepOldest(S) ==
  LET sorted == SortDesc(S)
  IN  {sorted[i] : i \in {j \in 1..Len(sorted) : j > Len(sorted) - MAX_RELEASES}}

\* Mutation of cleanupReleases: the loop starts at MAX_RELEASES + 1.
cleanupReleases_OffByOne(S) ==
  LET sorted == SortDesc(S)
  IN  {sorted[i] : i \in {j \in 1..Len(sorted) : j <= MAX_RELEASES + 1}}

\* cleanupReleases(projectDir): remove sortedReleases[i] for i >= MAX_RELEASES.
cleanupReleases(S) ==
  LET sorted == SortDesc(S)
  IN  {sorted[i] : i \in {j \in 1..Len(sorted) : j <= MAX_RELEASES}}

\* The directory a build context names.
Resolve(ctx) == IF ctx = CurrentLink THEN current ELSE ctx

\* update: composeContent.replace(/\.\/current/g, `./releases/${newVersion}`)
ReplaceCurrent(ctx, v) == IF ctx = CurrentLink THEN v ELSE ctx

\* rollback: both replacements name the target release.
ReplaceForRollback(ctx, v) == v

\* getContainerStatus(name): `docker ps --filter name=<name>` lists running
\* containers only.
getContainerStatus == IF inst.ex /\ inst.up THEN "running" ELSE "not found"

Running(i) == i.ex /\ i.up

\* `docker compose up -d`: the descriptor's context is the only thing that
\* differs between docker-compose.yml and docker-compose.new.yml, so both name
\* the same container <name>-app.  A running container of the current image is
\* up to date and left alone; otherwise the container is (re)created from the
\* image, and whether it comes up is the application's business.
ComposeUp(i, img) ==
  IF i.ex /\ i.up /\ i.rel = img
    THEN {i}
    ELSE {[ex |-> TRUE, rel |-> img, up |-> b] : b \in BOOLEAN}

\* The engines provision() knows, and the projects of the model.
Kinds == {"mysql", "postgres"}
Projects == {"alpha", "beta"}

\* The project the lifecycle commands of the model work on.
ProjectName == "alpha"

\* registry.json with no entry.
EmptyRegistry == [k \in Kinds |-> [j \in Projects |-> 0]]

\* options.name as create receives it: the command line has no such option,
\* the project's name is a separate argument ("" stands for undefined).
OptionsName == ""

\* `${options.name || 'project'}_db`: the name create stores the database
\* credentials under.
dbSecretName(name) == <<IF name # "" THEN name ELSE "project", "_db">>

NoCt == [k |-> <<0, 0>>, iv |-> 0, text |-> <<"none", 0>>]

\* No file under the name.
NoBlob == [salt |-> 0, iv |-> 0, tag |-> <<<<0, 0>>, 0, NoCt>>, ct |-> NoCt]

\* What a command finds when it starts.
Snapshot == [cur |-> current, inst |-> inst, reg |-> registry,
             sec |-> files[dbSecretName(OptionsName)],
             compose |-> compose, meta |-> meta]

NoPre == [cur |-> 0, inst |-> NoInst, reg |-> EmptyRegistry, sec |-> NoBlob,
          compose |-> NoFile, meta |-> NoMeta]

\* updateRegistry(name, metadata): registry[name] = metadata; of the entry the
\* model keeps the currentVersion.
updateRegistry(metadata) == metadata.cur

\* The command returns (r = "ok") or throws / reports r; its locals are gone.
Return(r) ==
  /\ pc' = "idle"
  /\ result' = r
  /\ newVersion' = 0
  /\ oldRelease' = 0
  /\ targetVersion' = 0
  /\ polls' = 0
  /\ pre' = NoPre
  /\ sawDown' = FALSE
  /\ gateRel' = 0

\* fs.remove(projectDir)
RemoveProjectDir ==
  /\ exists' = FALSE
  /\ releases' = {}
  /\ current' = 0
  /\ tempLink' = 0
  /\ compose' = NoFile
  /\ composeNew' = NoFile
  /\ meta' = NoMeta

InitD ==
  /\ clock = 1
  /\ pc = "idle"
  /\ op = "none"
  /\ result = "none"
  /\ exists = FALSE
  /\ releases = {}
  /\ current = 0
  /\ tempLink = 0
  /\ compose = NoFile
  /\ composeNew = NoFile
  /\ image = 0
  /\ inst = NoInst
  /\ meta = NoMeta
  /\ newVersion = 0
  /\ oldRelease = 0
  /\ targetVersion = 0
  /\ polls = 0
  /\ created = FALSE
  /\ pre = NoPre
  /\ sawDown = FALSE
  /\ gateRel = 0
  /\ plist = 0

fsVars == <<exists, releases, current, tempLink, compose, composeNew, meta>>
localVars == <<newVersion, oldRelease, targetVersion, polls>>
histVars == <<pre, sawDown, gateRel>>

\* waitForHealth sleeps two seconds after the poll that saw the container
\* running.  No version id is generated at MaxClock, where the clock stops.
TickWait == IF clock < MaxClock THEN clock + 1 ELSE clock

\* Time passes between commands.
Tick ==
  /\ pc = "idle"
  /\ clock < MaxClock
  /\ clock' = clock + 1
  /\ UNCHANGED <<pc, op, result, fsVars, image, inst, localVars, created,
                 histVars>>
  /\ UNCHANGED <<varsP, varsV, sideVars>>

\* A container that was started comes up while waitForHealth is polling.
ContainerStarts ==
  /\ pc \in {"c_wait", "u_wait", "r_wait"}
  /\ inst.ex /\ ~inst.up
  /\ inst' = [inst EXCEPT !.up = TRUE]
  /\ UNCHANGED <<clock, pc, op, result, fsVars, image, localVars, created,
                 histVars>>
  /\ UNCHANGED <<varsP, varsV, sideVars>>

\* ------------------------------------------------------------------------
\* Deployer.create
\* ------------------------------------------------------------------------

\* "Project already exists": returns without touching anything.
CreateExists ==
  /\ pc = "idle" /\ exists
  /\ op' = "create"
  /\ Return("exists")
  /\ UNCHANGED <<clock, fsVars, image, inst, created>>
  /\ UNCHANGED <<varsP, varsV, sideVars>>

\* ensureDir(projectDir ...), generateVersion()
CreateStart ==
  /\ pc = "idle" /\ ~exists
  /\ clock < MaxClock
  /\ exists' = TRUE
  /\ newVersion' = generateVersion
  /\ op' = "create" /\ result' = "running" /\ pc' = "c_clone"
  /\ pre' = Snapshot
  /\ sawDown' = ~Running(inst)
  /\ UNCHANGED <<clock, releases, current, tempLink, compose, composeNew,
                 meta, image, inst, oldRelease, targetVersion, polls, created,
                 gateRel>>
  /\ UNCHANGED <<varsP, varsV, sideVars>>

\* git clone into releases/<version>
CreateClone ==
  /\ pc = "c_clone"
  /\ releases' = releases \cup {newVersion}
  /\ pc' = "c_config"
  /\ UNCHANGED <<clock, op, result, exists, current, tempLink, compose,
                 composeNew, meta, image, inst, localVars, created, histVars>>
  /\ UNCHANGED <<varsP, varsV, sideVars>>

\* detectProjectType found nothing: fs.remove(projectDir); return
CreateNoType ==
  /\ pc = "c_config"
  /\ RemoveProjectDir
  /\ Return("notype")
  /\ UNCHANGED <<clock, op, image, inst, created>>
  /\ UNCHANGED <<varsP, varsV, sideVars>>

\* generateEnvFile, setupDockerConfig: docker-compose.yml from the template,
\* whose build context is ./current
CreateConfig ==
  /\ pc \in {"c_config", "c_setup"}
  /\ compose' = CurrentLink
  /\ pc' = "c_link"
  /\ UNCHANGED <<clock, op, result, exists, releases, current, tempLink,
                 composeNew, meta, image, inst, localVars, created, histVars>>
  /\ UNCHANGED <<varsP, varsV, sideVars>>

\* fs.ensureSymlink(releaseDir, current)
CreateLink ==
  /\ pc = "c_link"
  /\ current' = newVersion
  /\ pc' = "c_build"
  /\ UNCHANGED <<clock, op, result, exists, releases, tempLink, compose,
                 composeNew, meta, image, inst, localVars, created, histVars>>
  /\ UNCHANGED <<varsP, varsV, sideVars>>

\* runDockerBuild(projectDir)
CreateBuild ==
  /\ pc = "c_build"
  /\ Resolve(compose) \in releases
  /\ image' = Resolve(compose)
  /\ pc' = "c_up"
  /\ UNCHANGED <<clock, op, result, fsVars, inst, localVars, created,
                 histVars>>
  /\ UNCHANGED <<varsP, varsV, sideVars>>

\* docker compose up -d
CreateUp ==
  /\ pc = "c_up"
  /\ inst' \in ComposeUp(inst, image)
  /\ pc' = "c_wait"
  /\ UNCHANGED <<clock, op, result, fsVars, image, localVars, created,
                 histVars>>
  /\ UNCHANGED <<varsP, varsV, sideVars>>

\* waitForHealth(name, 60): one poll of the loop
CreateWait ==
  /\ pc = "c_wait"
  /\ IF getContainerStatus = "running"
       THEN /\ pc' = "c_meta" /\ clock' = TickWait /\ polls' = 0
            /\ gateRel' = inst.rel
       ELSE /\ polls' = polls + 1 /\ clock' = clock /\ gateRel' = gateRel
            /\ pc' = IF polls + 1 < MaxPolls THEN "c_wait" ELSE "c_catch"
  /\ UNCHANGED <<op, result, fsVars, image, inst, newVersion, oldRelease,
                 targetVersion, created, pre, sawDown>>
  /\ UNCHANGED <<varsP, varsV, sideVars>>

\* proxy host, metadata.json, updateRegistry
CreateMeta ==
  /\ pc = "c_meta"
  /\ meta' = [ex |-> TRUE, cur |-> newVersion, prev |-> 0, rb |-> FALSE]
  /\ plist' = updateRegistry(meta')
  /\ created' = TRUE
  /\ Return("ok")
  /\ UNCHANGED <<clock, op, exists, releases, current, tempLink, compose,
                 composeNew, image, inst>>
  /\ UNCHANGED <<varsP, varsV, cloneVars>>

\* An external call of create throws.
CreateFail ==
  /\ pc \in {"c_clone", "c_config", "c_env", "c_setup", "c_build", "c_up",
            "c_meta"}
  /\ pc' = "c_catch"
  /\ UNCHANGED <<clock, op, result, fsVars, image, inst, localVars, created,
                 histVars>>
  /\ UNCHANGED <<varsP, varsV, sideVars>>

\* catch: docker compose down --remove-orphans; fs.remove(projectDir); rethrow
CreateCatch ==
  /\ pc = "c_catch"
  /\ inst' = NoInst
  /\ RemoveProjectDir
  /\ Return("error")
  /\ UNCHANGED <<clock, op, image, created>>
  /\ UNCHANGED <<varsP, varsV, sideVars>>

\* ------------------------------------------------------------------------
\* Deployer.update
\* ------------------------------------------------------------------------

\* "Project not found": returns without touching anything.
UpdateNotFound ==
  /\ pc = "idle" /\ ~exists
  /\ op' = "update"
  /\ Return("notfound")
  /\ UNCHANGED <<clock, fsVars, image, inst, created>>
  /\ UNCHANGED <<varsP, varsV, sideVars>>

\* readJson(metadata.json), generateVersion(), realpath(current); the two
\* reads throw when the file or the link's target is missing.
UpdateStart ==
  /\ pc = "idle" /\ exists
  /\ clock < MaxClock
  /\ op' = "update"
  /\ IF meta.ex /\ current \in releases
       THEN /\ newVersion' = generateVersion
            /\ oldRelease' = current
            /\ result' = "running" /\ pc' = "u_clone"
            /\ pre' = Snapshot
            /\ sawDown' = ~Running(inst)
            /\ UNCHANGED <<targetVersion, polls, gateRel>>
       ELSE Return("error")
  /\ UNCHANGED <<clock, fsVars, image, inst, created>>
  /\ UNCHANGED <<varsP, varsV, sideVars>>

\* git clone into releases/<newVersion>; git refuses an existing directory.
UpdateClone ==
  /\ pc = "u_clone"
  /\ newVersion \notin releases
  /\ releases' = releases \cup {newVersion}
  /\ pc' = "u_temp"
  /\ UNCHANGED <<clock, op, result, exists, current, tempLink, compose,
                 composeNew, meta, image, inst, localVars, created, histVars>>
  /\ UNCHANGED <<varsP, varsV, sideVars>>

\* Mutation of UpdateTemp: the replaced text is written to docker-compose.yml.
UpdateTemp_Canonical ==
  /\ pc = "u_temp"
  /\ compose # NoFile
  /\ compose' = ReplaceCurrent(compose, newVersion)
  /\ composeNew' = ReplaceCurrent(compose, newVersion)
  /\ pc' = "u_build"
  /\ UNCHANGED <<clock, op, result, exists, releases, current, tempLink,
                 meta, image, inst, localVars, created, histVars>>
  /\ UNCHANGED <<varsP, varsV, sideVars>>

\* docker-compose.new.yml := docker-compose.yml with ./current replaced
UpdateTemp ==
  /\ pc = "u_temp"
  /\ compose # NoFile
  /\ composeNew' = ReplaceCurrent(compose, newVersion)
  /\ pc' = "u_build"
  /\ UNCHANGED <<clock, op, result, exists, releases, current, tempLink,
                 compose, meta, image, inst, localVars, created, histVars>>
  /\ UNCHANGED <<varsP, varsV, sideVars>>

\* docker compose -f docker-compose.new.yml build
UpdateBuild ==
  /\ pc = "u_build"
  /\ Resolve(composeNew) \in releases
  /\ image' = Resolve(composeNew)
  /\ pc' = "u_upnew"
  /\ UNCHANGED <<clock, op, result, fsVars, inst, localVars, created,
                 histVars>>
  /\ UNCHANGED <<varsP, varsV, sideVars>>

\* docker compose -f docker-compose.new.yml up -d
UpdateUpNew ==
  /\ pc = "u_upnew"
  /\ inst' \in ComposeUp(inst, image)
  /\ sawDown' = (sawDown \/ ~Running(inst'))
  /\ pc' = "u_wait"
  /\ UNCHANGED <<clock, op, result, fsVars, image, localVars, created, pre,
                 gateRel>>
  /\ UNCHANGED <<varsP, varsV, sideVars>>

\* waitForHealth(name, 30): one poll of the loop; the timeout is thrown.
\* Mutation of UpdateWait: the loop has no timeout.
UpdateWait_NoTimeout ==
  /\ pc = "u_wait"
  /\ IF getContainerStatus = "running"
       THEN /\ pc' = "u_link" /\ clock' = TickWait /\ polls' = 0
            /\ gateRel' = inst.rel
       ELSE /\ pc' = "u_wait" /\ clock' = clock /\ polls' = polls
            /\ gateRel' = gateRel
  /\ UNCHANGED <<result, newVersion, oldRelease, targetVersion, pre, sawDown>>
  /\ UNCHANGED <<op, fsVars, image, inst, created>>
  /\ UNCHANGED <<varsP, varsV, sideVars>>

UpdateWait ==
  /\ pc = "u_wait"
  /\ IF getContainerStatus = "running"
       THEN /\ pc' = "u_link" /\ clock' = TickWait /\ polls' = 0
            /\ gateRel' = inst.rel
            /\ UNCHANGED <<result, newVersion, oldRelease, targetVersion, pre,
                           sawDown>>
       ELSE /\ clock' = clock
            /\ IF polls + 1 < MaxPolls
                 THEN /\ pc' = "u_wait" /\ polls' = polls + 1
                      /\ UNCHANGED <<result, newVersion, oldRelease,
                                     targetVersion, pre, sawDown, gateRel>>
                 ELSE Return("timeout")
  /\ UNCHANGED <<op, fsVars, image, inst, created>>
  /\ UNCHANGED <<varsP, varsV, sideVars>>

\* fs.ensureSymlink(newReleaseDir, current.new)
UpdateLink ==
  /\ pc = "u_link"
  /\ tempLink' = newVersion
  /\ pc' = "u_rename"
  /\ UNCHANGED <<clock, op, result, exists, releases, current, compose,
                 composeNew, meta, image, inst, localVars, created, histVars>>
  /\ UNCHANGED <<varsP, varsV, sideVars>>

\* fs.rename(current.new, current)
UpdateRename ==
  /\ pc = "u_rename"
  /\ current' = tempLink
  /\ tempLink' = 0
  /\ pc' = "u_move"
  /\ UNCHANGED <<clock, op, result, exists, releases, compose, composeNew,
                 meta, image, inst, localVars, created, histVars>>
  /\ UNCHANGED <<varsP, varsV, sideVars>>

\* fs.move(docker-compose.new.yml, docker-compose.yml, {overwrite: true})
UpdateMove ==
  /\ pc = "u_move"
  /\ compose' = composeNew
  /\ composeNew' = NoFile
  /\ pc' = "u_down"
  /\ UNCHANGED <<clock, op, result, exists, releases, current, tempLink,
                 meta, image, inst, localVars, created, histVars>>
  /\ UNCHANGED <<varsP, varsV, sideVars>>

\* docker compose down --remove-orphans
UpdateDown ==
  /\ pc = "u_down"
  /\ inst' = NoInst
  /\ sawDown' = TRUE
  /\ pc' = "u_up"
  /\ UNCHANGED <<clock, op, result, fsVars, image, localVars, created, pre,
                 gateRel>>
  /\ UNCHANGED <<varsP, varsV, sideVars>>

\* docker compose up -d
UpdateUp ==
  /\ pc = "u_up"
  /\ inst' \in ComposeUp(inst, image)
  /\ sawDown' = (sawDown \/ ~Running(inst'))
  /\ pc' = "u_meta"
  /\ UNCHANGED <<clock, op, result, fsVars, image, localVars, created, pre,
                 gateRel>>
  /\ UNCHANGED <<varsP, varsV, sideVars>>

\* metadata.currentVersion / previousVersion, writeJson
UpdateMeta ==
  /\ pc = "u_meta"
  /\ meta' = [meta EXCEPT !.cur = newVersion, !.prev = oldRelease]
  /\ pc' = "u_cleanup"
  /\ UNCHANGED <<clock, op, result, exists, releases, current, tempLink,
                 compose, composeNew, image, inst, localVars, created,
                 histVars>>
  /\ UNCHANGED <<varsP, varsV, sideVars>>

\* cleanupReleases(projectDir), then the update returns
UpdateCleanup ==
  /\ pc = "u_cleanup"
  /\ releases' = cleanupReleases(releases)
  /\ Return("ok")
  /\ UNCHANGED <<clock, op, exists, current, tempLink, compose, composeNew,
                 meta, image, inst, created>>
  /\ UNCHANGED <<varsP, varsV, sideVars>>

\* An external call of update throws; the catch only rethrows.
UpdateFail ==
  /\ pc \in {"u_clone", "u_temp", "u_build", "u_upnew", "u_down", "u_up"}
  /\ Return("error")
  /\ UNCHANGED <<clock, op, fsVars, image, inst, created>>
  /\ UNCHANGED <<varsP, varsV, sideVars>>

\* ------------------------------------------------------------------------
\* Deployer.rollback
\* ------------------------------------------------------------------------

\* "Project not found"
RollbackNotFound ==
  /\ pc = "idle" /\ ~exists
  /\ op' = "rollback"
  /\ Return("notfound")
  /\ UNCHANGED <<clock, fsVars, image, inst, created>>
  /\ UNCHANGED <<varsP, varsV, sideVars>>

\* Mutation of RollbackTarget: a version without a directory falls back to
\* the default target.
RollbackTarget_Fallback(version) ==
  IF version \in releases THEN version ELSE SortDesc(releases)[2]

\* The target rollback resolves: options.version || sortedReleases[1]
RollbackTarget(version) ==
  IF version # 0 THEN version ELSE SortDesc(releases)[2]

\* readdir/sort, target resolution, pathExists(targetDir); version = 0 stands
\* for "no --version option".
RollbackStart(version) ==
  /\ pc = "idle" /\ exists
  /\ op' = "rollback"
  /\ IF Len(SortDesc(releases)) < 2
       THEN Return("noprevious")
       ELSE IF RollbackTarget(version) \notin releases
         THEN Return("notfound")
         ELSE /\ result' = "running" /\ pc' = "r_compose"
              /\ targetVersion' = RollbackTarget(version)
              /\ pre' = Snapshot
              /\ sawDown' = ~Running(inst)
              /\ UNCHANGED <<newVersion, oldRelease, polls, gateRel>>
  /\ UNCHANGED <<clock, fsVars, image, inst, created>>
  /\ UNCHANGED <<varsP, varsV, sideVars>>

\* docker-compose.yml rewritten to the target release
RollbackCompose ==
  /\ pc = "r_compose"
  /\ compose # NoFile
  /\ compose' = ReplaceForRollback(compose, targetVersion)
  /\ pc' = "r_down"
  /\ UNCHANGED <<clock, op, result, exists, releases, current, tempLink,
                 composeNew, meta, image, inst, localVars, created, histVars>>
  /\ UNCHANGED <<varsP, varsV, sideVars>>

\* docker compose down
RollbackDown ==
  /\ pc = "r_down"
  /\ inst' = NoInst
  /\ sawDown' = TRUE
  /\ pc' = "r_build"
  /\ UNCHANGED <<clock, op, result, fsVars, image, localVars, created, pre,
                 gateRel>>
  /\ UNCHANGED <<varsP, varsV, sideVars>>

\* docker compose build
RollbackBuild ==
  /\ pc = "r_build"
  /\ Resolve(compose) \in releases
  /\ image' = Resolve(compose)
  /\ pc' = "r_up"
  /\ UNCHANGED <<clock, op, result, fsVars, inst, localVars, created,
                 histVars>>
  /\ UNCHANGED <<varsP, varsV, sideVars>>

\* docker compose up -d
RollbackUp ==
  /\ pc = "r_up"
  /\ inst' \in ComposeUp(inst, image)
  /\ pc' = "r_unlink"
  /\ UNCHANGED <<clock, op, result, fsVars, image, localVars, created,
                 histVars>>
  /\ UNCHANGED <<varsP, varsV, sideVars>>

\* fs.remove(current)
RollbackUnlink ==
  /\ pc = "r_unlink"
  /\ current' = 0
  /\ pc' = "r_link"
  /\ UNCHANGED <<clock, op, result, exists, releases, tempLink, compose,
                 composeNew, meta, image, inst, localVars, created, histVars>>
  /\ UNCHANGED <<varsP, varsV, sideVars>>

\* fs.ensureSymlink(targetDir, current)
RollbackLink ==
  /\ pc = "r_link"
  /\ current' = targetVersion
  /\ pc' = "r_meta"
  /\ UNCHANGED <<clock, op, result, exists, releases, tempLink, compose,
                 composeNew, meta, image, inst, localVars, created, histVars>>
  /\ UNCHANGED <<varsP, varsV, sideVars>>

\* metadata.currentVersion, rolledBackAt, writeJson
RollbackMeta ==
  /\ pc = "r_meta"
  /\ meta.ex
  /\ meta' = [meta EXCEPT !.cur = targetVersion, !.rb = TRUE]
  /\ pc' = "r_wait"
  /\ UNCHANGED <<clock, op, result, exists, releases, current, tempLink,
                 compose, composeNew, image, inst, localVars, created,
                 histVars>>
  /\ UNCHANGED <<varsP, varsV, sideVars>>

\* waitForHealth(name, 30): one poll of the loop; the timeout is thrown.
\* rollback generates no version id, so its sleep is left to Tick.
RollbackWait ==
  /\ pc = "r_wait"
  /\ IF getContainerStatus = "running"
       THEN /\ clock' = clock
            /\ Return("ok")
       ELSE /\ clock' = clock
            /\ IF polls + 1 < MaxPolls
                 THEN /\ pc' = "r_wait" /\ polls' = polls + 1
                      /\ UNCHANGED <<result, newVersion, oldRelease,
                                     targetVersion, pre, sawDown, gateRel>>
                 ELSE Return("timeout")
  /\ UNCHANGED <<op, fsVars, image, inst, created>>
  /\ UNCHANGED <<varsP, varsV, sideVars>>

\* An external call of rollback throws; the catch only rethrows.
RollbackFail ==
  /\ pc \in {"r_compose", "r_down", "r_build", "r_up", "r_meta"}
  /\ Return("error")
  /\ UNCHANGED <<clock, op, fsVars, image, inst, created>>
  /\ UNCHANGED <<varsP, varsV, sideVars>>

\* ------------------------------------------------------------------------
\* Release lifecycle: properties
\* ------------------------------------------------------------------------

UpdateSteps == {"u_clone", "u_temp", "u_build", "u_upnew", "u_wait", "u_link",
                "u_rename", "u_move", "u_down", "u_up", "u_meta", "u_cleanup"}

\* C1: once create has completed, at every step (also inside a later update
\* or rollback) the `current` link exists and names an existing release.
C1_CurrentAlwaysResolves ==
  created => (current # 0 /\ current \in releases)

\* C2: when update throws the health-gate timeout, `current` is what it was
\* before the call and the container that was serving before the call is
\* still the one running, built from the same release.
C2_TimeoutLeavesRuntimeUntouched ==
  [][(op = "update" /\ pc = "u_wait" /\ pc' = "idle" /\ result' = "timeout"
        /\ Running(pre.inst))
     => (current' = pre.cur /\ inst' = pre.inst)]_vars

\* C3: an update that began with a serving container and returns success
\* never went through a step at which no container was running.
C3_ZeroDowntime ==
  [][(op = "update" /\ pc = "u_cleanup" /\ pc' = "idle" /\ result' = "ok"
        /\ Running(pre.inst))
     => ~sawDown]_vars

\* C4: update repoints `current` only after the health gate has seen a
\* running container built from the new release.
C4_GateProbesNewRelease ==
  [][(op = "update" /\ pc \in UpdateSteps /\ current' # current)
     => gateRel = newVersion]_vars

C17_RollbackTargetsPredecessor ==
  [][RollbackStart(0)
     => LET older == {v \in releases : v < current}
        IN  IF older # {}
              THEN pc' = "r_compose" /\ targetVersion' = Max(older)
              ELSE pc' = "idle" /\ result' \in {"notfound", "noprevious"}]_vars

\* C19: when the health gate of update times out, the container started from
\* the new release has been torn down by the time update returns.
C19_TimeoutTearsDownNewInstance ==
  [][(op = "update" /\ pc = "u_wait" /\ pc' = "idle" /\ result' = "timeout")
     => ~(inst'.ex /\ inst'.rel = newVersion)]_vars

\* C24: the id update allocates differs from, and is greater than, the id of
\* every release created before it.
C24_IdsDistinctAndIncreasing ==
  [][(pc = "idle" /\ pc' = "u_clone")
     => \A v \in releases : v < newVersion']_vars

WaitSteps == {"c_wait", "u_wait"}

\* C25: waitForHealth always ends; when it ends without having seen the
\* container running, the command fails: create goes to its catch block,
\* update and rollback throw the timeout.
C25_HealthGateBounded ==
  /\ \A w \in WaitSteps : (pc = w) ~> (pc # w)
  /\ [][(pc \in WaitSteps /\ pc' \notin WaitSteps
           /\ getContainerStatus # "running")
        => (pc' = "c_catch" \/ (pc' = "idle" /\ result' = "timeout"))]_vars

\* C25 witness: an update has returned the timeout of its health gate.
C25_Witness ==
  pc = "idle" /\ op = "update" /\ result = "timeout" /\ inst.ex /\ ~inst.up

\* C26: an update that throws at the clone, at the writing of the temporary
\* descriptor or at the build leaves `current`, docker-compose.yml, the
\* container and metadata.json as they were when it started.
C26_EarlyFailureChangesNothing ==
  [][(op = "update" /\ pc \in {"u_clone", "u_temp", "u_build"}
        /\ pc' = "idle" /\ result' = "error")
     => /\ current' = pre.cur
        /\ compose' = pre.compose
        /\ inst' = pre.inst
        /\ meta' = pre.meta]_vars

\* C26 witness: an update failed at its build: the new release and the
\* temporary descriptor are there, the old release is current and serving.
C26_Witness ==
  /\ pc = "idle" /\ op = "update" /\ result = "error"
  /\ composeNew # NoFile /\ composeNew \in releases /\ composeNew # current
  /\ image = current /\ Running(inst) /\ inst.rel = current
  /\ compose = CurrentLink

exitCode(r) == IF r \in {"error", "timeout"} THEN 1 ELSE 0

\* C29: create for a project that exists is rejected with an error that
\* reaches the caller, and the project is left as it is.
C29_DuplicateCreateRejected ==
  [][CreateExists
     => /\ exitCode(result') = 1
        /\ UNCHANGED <<exists, releases, current, compose, inst, meta>>]_vars

\* C30: when an update whose health gate passed completes, its new version
\* exists, `current` references it, the metadata names it as the current
\* version and the release `current` referenced before the update as the
\* previous one, that previous release is still there, and no instance of the
\* previous release is running.
C30_UpdatePostcondition ==
  [][UpdateCleanup
     => /\ newVersion \in releases' /\ newVersion # pre.cur
        /\ current' = newVersion
        /\ meta'.cur = newVersion /\ meta'.prev = pre.cur
        /\ pre.cur \in releases'
        /\ ~(Running(inst') /\ inst'.rel = pre.cur)]_vars

\* C31: when an update completes, whichever update of the project it is,
\* docker-compose.yml is bound to the release the update created and the
\* container restarted from it is built from that release, the one `current`
\* references.
C31_DescriptorBoundToNewRelease ==
  [][UpdateCleanup
     => /\ Resolve(compose') = newVersion
        /\ inst'.ex /\ inst'.rel = newVersion
        /\ inst'.rel = current']_vars

\* C34: when a rollback completes, the metadata names the target as the
\* current version and records the version rolled back from, the one
\* `current` referenced when the rollback started.
C34_RollbackRecordsOrigin ==
  [][(pc = "r_wait" /\ pc' = "idle" /\ result' = "ok")
     => /\ meta'.cur = targetVersion
        /\ meta'.prev = pre.cur]_vars

\* C36: after a create, an update or a rollback that completed, and after an
\* update or a rollback that failed at whatever step, the currentVersion of
\* the project's metadata is the version `current` references.
C36_MetadataAgreesWithCurrent ==
  (/\ pc = "idle"
   /\ \/ op \in {"create", "update", "rollback"} /\ result = "ok"
      \/ op \in {"update", "rollback"} /\ result \in {"error", "timeout"})
  => (meta.ex /\ meta.cur = current)

\* C39: after a create, an update, a rollback or a remove that completed,
\* projects.json has an entry for the project exactly when the project
\* exists, and the entry's currentVersion is the currentVersion of the
\* project's metadata.
C39_ProjectsListConsistent ==
  (pc = "idle" /\ op \in {"create", "update", "rollback", "remove"}
     /\ result = "ok")
  => /\ (plist # 0) = exists
     /\ exists => (meta.ex /\ plist = meta.cur)

\* ------------------------------------------------------------------------
\* Deployer.remove (called with --force)
\* ------------------------------------------------------------------------

\* "Project not found"
RemoveNotFound ==
  /\ pc = "idle" /\ ~exists
  /\ op' = "remove"
  /\ Return("notfound")
  /\ UNCHANGED <<clock, fsVars, image, inst, created>>
  /\ UNCHANGED <<varsP, varsV, sideVars>>

RemoveStart ==
  /\ pc = "idle" /\ exists
  /\ op' = "remove"
  /\ result' = "running" /\ pc' = "x_down"
  /\ pre' = Snapshot
  /\ UNCHANGED <<newVersion, oldRelease, targetVersion, polls, sawDown, gateRel>>
  /\ UNCHANGED <<clock, fsVars, image, inst, created>>
  /\ UNCHANGED <<varsP, varsV, sideVars>>

\* docker compose down --remove-orphans --volumes, or docker rm -f <name>-app
RemoveDown ==
  /\ pc = "x_down"
  /\ inst' = NoInst
  /\ pc' = "x_files"
  /\ UNCHANGED <<clock, op, result, fsVars, image, localVars, created,
                 histVars>>
  /\ UNCHANGED <<varsP, varsV, sideVars>>

\* fs.remove(projectDir)
RemoveFiles ==
  /\ pc = "x_files"
  /\ RemoveProjectDir
  /\ pc' = "x_registry"
  /\ UNCHANGED <<clock, op, result, image, inst, localVars, created, histVars>>
  /\ UNCHANGED <<varsP, varsV, sideVars>>

\* removeFromRegistry(name), then the remove returns
RemoveFromRegistry ==
  /\ pc = "x_registry"
  /\ plist' = 0
  /\ created' = FALSE
  /\ Return("ok")
  /\ UNCHANGED <<clock, op, fsVars, image, inst>>
  /\ UNCHANGED <<varsP, varsV, cloneVars>>

\* A call of remove throws (docker, the proxy, the file system); the catch
\* only rethrows.
RemoveFail ==
  /\ pc \in {"x_down", "x_files", "x_registry"}
  /\ Return("error")
  /\ UNCHANGED <<clock, op, fsVars, image, inst, created>>
  /\ UNCHANGED <<varsP, varsV, sideVars>>

\* ------------------------------------------------------------------------
\* Deployer.create / Deployer.update: the clone step on its own.  The branch
\* option, the default, the repository's branches and the attempts at which
\* git fails for a reason other than a missing branch are the inputs.
\* ------------------------------------------------------------------------

Branches == {"main", "master", "develop"}

\* git clone --depth 1 --branch <branch>: git reports a missing remote
\* branch, or fails for another reason (network, credentials, timeout).
gitClone(branch, repo, fault) ==
  IF fault THEN "other" ELSE IF branch \in repo THEN "ok" ELSE "notfound"

\* No clone on its own: the state of these variables in the other
\* specifications.
InitCloneIdle ==
  /\ gpc = "none"
  /\ gopt = "" /\ gdef = "main" /\ grepo = {} /\ gfault = {}
  /\ gtried = <<>> /\ gerr = "none" /\ gres = "none" /\ gactual = ""

InitClone ==
  /\ gpc = "try"
  /\ gopt \in Branches \cup {""}
  /\ gdef \in Branches
  /\ grepo \in SUBSET Branches
  /\ gfault \in SUBSET {1, 2}
  /\ gtried = <<>> /\ gerr = "none" /\ gres = "none" /\ gactual = ""

\* branch = options.branch || default; actualBranch = branch; first git clone.
CloneTry ==
  /\ gpc = "try"
  /\ LET branch == IF gopt # "" THEN gopt ELSE gdef
         out == gitClone(branch, grepo, 1 \in gfault)
     IN  /\ gtried' = <<branch>>
         /\ gactual' = branch
         /\ IF out = "ok"
            THEN gpc' = "done" /\ gres' = "ok" /\ gerr' = "none"
            ELSE gpc' = "caught" /\ gres' = gres /\ gerr' = out
  /\ UNCHANGED <<gopt, gdef, grepo, gfault>>
  /\ UNCHANGED <<clock, pc, op, result, fsVars, image, inst, localVars,
                 created, histVars, plist, varsP, varsV>>

\* The catch of the first clone: the other default branch is tried when the
\* branch is main or master and options.branch is not set; that clone's error
\* is thrown on; otherwise the error caught is thrown.
CloneCatch ==
  /\ gpc = "caught"
  /\ LET branch == gtried[1]
         fallbackBranch == IF branch = "main" THEN "master" ELSE "main"
     IN  IF branch \in {"main", "master"} /\ gopt = ""
         THEN /\ gtried' = Append(gtried, fallbackBranch)
              /\ IF gitClone(fallbackBranch, grepo, 2 \in gfault) = "ok"
                 THEN gres' = "ok" /\ gactual' = fallbackBranch
                 ELSE gres' = "error" /\ gactual' = gactual
         ELSE /\ gres' = "error"
              /\ UNCHANGED <<gtried, gactual>>
  /\ gpc' = "done"
  /\ UNCHANGED <<gopt, gdef, grepo, gfault, gerr>>
  /\ UNCHANGED <<clock, pc, op, result, fsVars, image, inst, localVars,
                 created, histVars, plist, varsP, varsV>>

NextClone == CloneTry \/ CloneCatch

\* C35: the clone step calls git a second time, for the other default
\* branch, only when no branch option was given and the first call reported
\* a missing branch; with a branch option, or after any other failure of the
\* first call, git is called once and the step fails.
C35_FallbackOnlyOnNotFound ==
  gpc = "done"
  => /\ Len(gtried) = 2 => (gopt = "" /\ gerr = "notfound")
     /\ (gerr # "none" /\ (gopt # "" \/ gerr = "other"))
          => (Len(gtried) = 1 /\ gres = "error")

\* ------------------------------------------------------------------------
\* Database provisioning (services/database.js)
\*
\* One registry file holds the entries of every project and both engine
\* kinds; loadRegistry reads the whole file and saveRegistry writes the whole
\* object the call holds.  The engine side of one database is its account's
\* password and whether the database exists with the account's grants.  The
\* shared engine containers are taken to be up (ensureMySQLServer and
\* ensurePostgresServer return at once).  Every call to the engine or to the
\* file system is one step.
\* ------------------------------------------------------------------------

\* Number of passwords generatePassword() hands out.
MaxPw == 3

Procs == {1, 2}

\* A password no call of the tool has generated: the value an operator sets
\* by hand on the engine.
Foreign == MaxPw + 1

\* `mysql -u user -ppass -e "SELECT 1" db` (and psql likewise): the account
\* exists with this password and the database exists with its grants.
Login(k, j, pw) == pw # 0 /\ acct[k][j] = pw /\ db[k][j]

generatePassword == nextPw

InitP ==
  /\ registry = EmptyRegistry
  /\ acct = [k \in Kinds |-> [j \in Projects |-> 0]]
  /\ db = [k \in Kinds |-> [j \in Projects |-> FALSE]]
  /\ envPw = [k \in Kinds |-> [j \in Projects |-> 0]]
  /\ nextPw = 1
  /\ ppc = [p \in Procs |-> "idle"]
  /\ pkind = [p \in Procs |-> "mysql"]
  /\ pproj = [p \in Procs |-> "alpha"]
  /\ preg = [p \in Procs |-> EmptyRegistry]
  /\ pexist = [p \in Procs |-> 0]
  /\ ppw = [p \in Procs |-> 0]
  /\ pres = [p \in Procs |-> "none"]
  /\ pgen = [p \in Procs |-> FALSE]
  /\ pdrift = [p \in Procs |-> FALSE]
  /\ pafter = [p \in Procs |-> FALSE]
  /\ presets = [p \in Procs |-> 0]
  /\ drifted = FALSE

engineVars == <<acct, db>>
callVars == <<pkind, pproj, pafter, presets>>
otherVars == <<varsD, varsV, drifted>>

\* The call leaves provision(): its locals go out of scope.
Leave(p, r) ==
  /\ ppc' = [ppc EXCEPT ![p] = "idle"]
  /\ pres' = [pres EXCEPT ![p] = r]
  /\ preg' = [preg EXCEPT ![p] = EmptyRegistry]
  /\ pexist' = [pexist EXCEPT ![p] = 0]
  /\ ppw' = [ppw EXCEPT ![p] = 0]
  /\ pgen' = [pgen EXCEPT ![p] = FALSE]
  /\ pdrift' = [pdrift EXCEPT ![p] = FALSE]

Goto(p, l) == ppc' = [ppc EXCEPT ![p] = l]

\* provision(projectName, dbType): dispatch on the engine kind.
ProvisionCall(p, k, j) ==
  /\ ppc[p] = "idle"
  /\ Goto(p, IF k = "mysql" THEN "m_load" ELSE "g_load")
  /\ pkind' = [pkind EXCEPT ![p] = k]
  /\ pproj' = [pproj EXCEPT ![p] = j]
  /\ pres' = [pres EXCEPT ![p] = "running"]
  /\ pafter' = [pafter EXCEPT ![p] =
                  pres[p] = "crashed" /\ pkind[p] = k /\ pproj[p] = j]
  /\ presets' = [presets EXCEPT ![p] = 0]
  /\ UNCHANGED <<registry, engineVars, envPw, nextPw, preg, pexist, ppw, pgen, pdrift>>
  /\ UNCHANGED drifted

\* A call of provision() from the command line of the database service.
Provision(p, k, j) ==
  /\ ProvisionCall(p, k, j)
  /\ UNCHANGED <<varsD, varsV>>

\* provisionMySql step 1: loadRegistry, existingEntry, existingPassword.
MySqlLoad(p) ==
  /\ ppc[p] = "m_load"
  /\ preg' = [preg EXCEPT ![p] = registry]
  /\ pexist' = [pexist EXCEPT ![p] = registry[pkind[p]][pproj[p]]]
  /\ pdrift' = [pdrift EXCEPT ![p] =
                  /\ registry[pkind[p]][pproj[p]] # 0
                  /\ acct[pkind[p]][pproj[p]] # 0
                  /\ ~Login(pkind[p], pproj[p], registry[pkind[p]][pproj[p]])]
  /\ Goto(p, "m_check")
  /\ UNCHANGED <<registry, engineVars, envPw, nextPw, ppw, pres, pgen>>
  /\ UNCHANGED <<callVars, otherVars>>

\* Step 2: checkMySqlUserExists, then the choice of the branch; the two
\* branches without a registry password call generatePassword().
MySqlCheck(p) ==
  /\ ppc[p] = "m_check"
  /\ LET userExists == acct[pkind[p]][pproj[p]] # 0
     IN  IF userExists /\ pexist[p] # 0
         THEN /\ Goto(p, "m_validate")
              /\ UNCHANGED <<ppw, pgen, nextPw>>
         ELSE IF userExists
         THEN /\ nextPw <= MaxPw
              /\ ppw' = [ppw EXCEPT ![p] = generatePassword]
              /\ pgen' = [pgen EXCEPT ![p] = TRUE]
              /\ nextPw' = nextPw + 1
              /\ Goto(p, "m_reset")
         ELSE IF pexist[p] # 0
         THEN /\ ppw' = [ppw EXCEPT ![p] = pexist[p]]
              /\ Goto(p, "m_create")
              /\ UNCHANGED <<pgen, nextPw>>
         ELSE /\ nextPw <= MaxPw
              /\ ppw' = [ppw EXCEPT ![p] = generatePassword]
              /\ pgen' = [pgen EXCEPT ![p] = TRUE]
              /\ nextPw' = nextPw + 1
              /\ Goto(p, "m_create")
  /\ UNCHANGED <<registry, engineVars, envPw, preg, pexist, pres, pdrift>>
  /\ UNCHANGED <<callVars, otherVars>>

\* validateMySqlConnection(dbName, username, existingPassword): reuse the
\* password when the login works, otherwise go on to reset the engine to it.
MySqlValidate(p) ==
  /\ ppc[p] = "m_validate"
  /\ ppw' = [ppw EXCEPT ![p] = pexist[p]]
  /\ IF Login(pkind[p], pproj[p], pexist[p])
     THEN Goto(p, "m_ensure")
     ELSE Goto(p, "m_reset")
  /\ UNCHANGED <<registry, engineVars, envPw, nextPw, preg, pexist, pres, pgen,
                 pdrift>>
  /\ UNCHANGED <<callVars, otherVars>>

\* Mutation of MySqlReset: the mismatch branch falls through to the reset of
\* the branch without a registry password, so the command is issued twice.
MySqlReset_Twice(p) ==
  /\ ppc[p] = "m_reset"
  /\ IF acct[pkind[p]][pproj[p]] # 0
     THEN /\ acct' = [acct EXCEPT ![pkind[p]][pproj[p]] = ppw[p]]
          /\ Goto(p, "m_ensure")
          /\ UNCHANGED <<preg, pexist, ppw, pres, pgen, pdrift>>
     ELSE Leave(p, "error") /\ UNCHANGED acct
  /\ presets' = [presets EXCEPT ![p] = @ + 2]
  /\ UNCHANGED <<registry, db, envPw, nextPw>>
  /\ UNCHANGED <<pkind, pproj, pafter, otherVars>>

\* resetMySqlUserPassword: ALTER USER fails when the account is missing.
MySqlReset(p) ==
  /\ ppc[p] = "m_reset"
  /\ IF acct[pkind[p]][pproj[p]] # 0
     THEN /\ acct' = [acct EXCEPT ![pkind[p]][pproj[p]] = ppw[p]]
          /\ Goto(p, "m_ensure")
          /\ UNCHANGED <<preg, pexist, ppw, pres, pgen, pdrift>>
     ELSE Leave(p, "error") /\ UNCHANGED acct
  /\ presets' = [presets EXCEPT ![p] = @ + 1]
  /\ UNCHANGED <<registry, db, envPw, nextPw>>
  /\ UNCHANGED <<pkind, pproj, pafter, otherVars>>

\* createMySqlUser: CREATE USER fails when the account exists already.
MySqlCreate(p) ==
  /\ ppc[p] = "m_create"
  /\ IF acct[pkind[p]][pproj[p]] = 0
     THEN /\ acct' = [acct EXCEPT ![pkind[p]][pproj[p]] = ppw[p]]
          /\ Goto(p, "m_ensure")
          /\ UNCHANGED <<preg, pexist, ppw, pres, pgen, pdrift>>
     ELSE Leave(p, "error") /\ UNCHANGED acct
  /\ UNCHANGED <<registry, db, envPw, nextPw>>
  /\ UNCHANGED <<callVars, otherVars>>

\* Step 3: ensureMySqlDatabase; GRANT fails when the account is missing.
MySqlEnsure(p) ==
  /\ ppc[p] = "m_ensure"
  /\ IF acct[pkind[p]][pproj[p]] # 0
     THEN /\ db' = [db EXCEPT ![pkind[p]][pproj[p]] = TRUE]
          /\ Goto(p, "m_save")
          /\ UNCHANGED <<preg, pexist, ppw, pres, pgen, pdrift>>
     ELSE Leave(p, "error") /\ UNCHANGED db
  /\ UNCHANGED <<registry, acct, envPw, nextPw>>
  /\ UNCHANGED <<callVars, otherVars>>

\* Step 4: the entry is set in the object loaded in step 1 and saveRegistry
\* writes that object.
MySqlSave(p) ==
  /\ ppc[p] = "m_save"
  /\ registry' = [preg[p] EXCEPT ![pkind[p]][pproj[p]] = ppw[p]]
  /\ Goto(p, "m_final")
  /\ UNCHANGED <<engineVars, envPw, nextPw, preg, pexist, ppw, pres, pgen, pdrift>>
  /\ UNCHANGED <<callVars, otherVars>>

\* Step 5: final validateMySqlConnection; the credentials are returned, and
\* the caller writes them to the project's environment, or the call throws.
MySqlFinal(p) ==
  /\ ppc[p] = "m_final"
  /\ IF Login(pkind[p], pproj[p], ppw[p])
     THEN /\ Leave(p, "ok")
          /\ envPw' = [envPw EXCEPT ![pkind[p]][pproj[p]] = ppw[p]]
     ELSE /\ Leave(p, "error")
          /\ UNCHANGED envPw
  /\ UNCHANGED <<registry, engineVars, nextPw>>
  /\ UNCHANGED <<callVars, otherVars>>

\* provisionPostgres: loadRegistry and the choice of the password.
PostgresLoad(p) ==
  /\ ppc[p] = "g_load"
  /\ preg' = [preg EXCEPT ![p] = registry]
  /\ pexist' = [pexist EXCEPT ![p] = registry[pkind[p]][pproj[p]]]
  /\ pdrift' = [pdrift EXCEPT ![p] =
                  /\ registry[pkind[p]][pproj[p]] # 0
                  /\ acct[pkind[p]][pproj[p]] # 0
                  /\ ~Login(pkind[p], pproj[p], registry[pkind[p]][pproj[p]])]
  /\ IF registry[pkind[p]][pproj[p]] # 0
     THEN /\ ppw' = [ppw EXCEPT ![p] = registry[pkind[p]][pproj[p]]]
          /\ UNCHANGED <<pgen, nextPw>>
     ELSE /\ nextPw <= MaxPw
          /\ ppw' = [ppw EXCEPT ![p] = generatePassword]
          /\ pgen' = [pgen EXCEPT ![p] = TRUE]
          /\ nextPw' = nextPw + 1
  /\ Goto(p, "g_user")
  /\ UNCHANGED <<registry, engineVars, envPw, pres>>
  /\ UNCHANGED <<callVars, otherVars>>

\* CREATE USER ... || true: an existing account keeps its password.
PostgresCreateUser(p) ==
  /\ ppc[p] = "g_user"
  /\ acct' = [acct EXCEPT ![pkind[p]][pproj[p]] = IF @ = 0 THEN ppw[p] ELSE @]
  /\ Goto(p, "g_db")
  /\ UNCHANGED <<registry, db, envPw, nextPw, preg, pexist, ppw, pres, pgen, pdrift>>
  /\ UNCHANGED <<callVars, otherVars>>

\* CREATE DATABASE ... OWNER ... || true.
PostgresCreateDb(p) ==
  /\ ppc[p] = "g_db"
  /\ db' = [db EXCEPT ![pkind[p]][pproj[p]] = @ \/ acct[pkind[p]][pproj[p]] # 0]
  /\ Goto(p, "g_grant")
  /\ UNCHANGED <<registry, acct, envPw, nextPw, preg, pexist, ppw, pres, pgen, pdrift>>
  /\ UNCHANGED <<callVars, otherVars>>

\* GRANT ALL PRIVILEGES: fails when the database or the account is missing.
PostgresGrant(p) ==
  /\ ppc[p] = "g_grant"
  /\ IF db[pkind[p]][pproj[p]] /\ acct[pkind[p]][pproj[p]] # 0
     THEN /\ Goto(p, "g_alter")
          /\ UNCHANGED <<preg, pexist, ppw, pres, pgen, pdrift>>
     ELSE Leave(p, "error")
  /\ UNCHANGED <<registry, engineVars, envPw, nextPw>>
  /\ UNCHANGED <<callVars, otherVars>>

\* ALTER USER, only when the registry held a password.
PostgresAlter(p) ==
  /\ ppc[p] = "g_alter"
  /\ IF pexist[p] # 0
     THEN /\ presets' = [presets EXCEPT ![p] = @ + 1]
          /\ IF acct[pkind[p]][pproj[p]] # 0
             THEN /\ acct' = [acct EXCEPT ![pkind[p]][pproj[p]] = ppw[p]]
                  /\ Goto(p, "g_save")
                  /\ UNCHANGED <<preg, pexist, ppw, pres, pgen, pdrift>>
             ELSE Leave(p, "error") /\ UNCHANGED acct
     ELSE /\ Goto(p, "g_save")
          /\ UNCHANGED <<acct, preg, pexist, ppw, pres, pgen, pdrift, presets>>
  /\ UNCHANGED <<registry, db, envPw, nextPw>>
  /\ UNCHANGED <<pkind, pproj, pafter, otherVars>>

\* saveRegistry and return of the credentials; no login is attempted.
PostgresSave(p) ==
  /\ ppc[p] = "g_save"
  /\ registry' = [preg[p] EXCEPT ![pkind[p]][pproj[p]] = ppw[p]]
  /\ envPw' = [envPw EXCEPT ![pkind[p]][pproj[p]] = ppw[p]]
  /\ Leave(p, "ok")
  /\ UNCHANGED <<engineVars, nextPw>>
  /\ UNCHANGED <<callVars, otherVars>>

\* The process running the call is killed between two steps.
Crash(p) ==
  /\ ppc[p] # "idle"
  /\ Leave(p, "crashed")
  /\ UNCHANGED <<registry, engineVars, envPw, nextPw>>
  /\ UNCHANGED <<callVars, varsD, varsV, drifted>>

\* Password drift: the account's password is changed on the engine by hand.
Drift(k, j) ==
  /\ acct[k][j] \notin {0, Foreign}
  /\ acct' = [acct EXCEPT ![k][j] = Foreign]
  /\ drifted' = TRUE
  /\ UNCHANGED <<registry, db, envPw, nextPw, ppc, preg, pexist, ppw, pres,
                 pgen, pdrift>>
  /\ UNCHANGED <<callVars, varsD, varsV>>

Step(p) ==
  \/ MySqlLoad(p) \/ MySqlCheck(p) \/ MySqlValidate(p) \/ MySqlReset(p)
  \/ MySqlCreate(p) \/ MySqlEnsure(p) \/ MySqlSave(p) \/ MySqlFinal(p)
  \/ PostgresLoad(p) \/ PostgresCreateUser(p) \/ PostgresCreateDb(p)
  \/ PostgresGrant(p) \/ PostgresAlter(p) \/ PostgresSave(p)

\* Concurrent calls, none interrupted, no change made outside the tool.
NextProv ==
  \E p \in Procs : (\E k \in Kinds : Provision(p, k, ProjectName)) \/ Step(p)

\* One caller, one call after the other; a call can be interrupted and the
\* password can drift.
NextProvSeq ==
  \/ \E k \in Kinds : Provision(1, k, ProjectName)
  \/ Step(1)
  \/ Crash(1)
  \/ \E k \in Kinds : Drift(k, ProjectName)

\* ------------------------------------------------------------------------
\* Database provisioning: properties
\* ------------------------------------------------------------------------

\* A call of process p returns (with a result or an error) in this step.
Returns(p) == ppc[p] # "idle" /\ ppc'[p] = "idle" /\ pres'[p] \in {"ok", "error"}

\* C6: when concurrent provision calls for one project and engine kind have
\* all finished, the password the registry records for it logs in to the
\* engine.
C6_ConcurrentCallsConverge ==
  \A k \in Kinds, j \in Projects :
    ( /\ \A p \in Procs : /\ ppc[p] = "idle"
                          /\ pres[p] \in {"ok", "error"}
                          /\ pkind[p] = k /\ pproj[p] = j
      /\ registry[k][j] # 0 )
    => Login(k, j, registry[k][j])

\* C7: for either engine kind and whatever the call found in the registry
\* and on the engine, a provision call that returns successfully leaves the
\* registry's recorded password able to log in to the engine (a failing login
\* at the end of the call is an error, not a success).  Stated for calls
\* during which nobody but the tool has touched the account.
C7_SuccessImpliesLogin ==
  [][\A p \in Procs :
       (Returns(p) /\ pres'[p] = "ok" /\ ~drifted')
       => /\ registry'[pkind[p]][pproj[p]] # 0
          /\ acct'[pkind[p]][pproj[p]] = registry'[pkind[p]][pproj[p]]
          /\ db'[pkind[p]][pproj[p]]]_vars

\* C8: a call that began with a registry password, an existing account and a
\* failing login generates no password, leaves the registry password as it
\* was, and returns success only if the engine account has been reset to the
\* registry password and the login works; otherwise it reports an error.
C8_DriftResetsToRegistry ==
  [][\A p \in Procs :
       (Returns(p) /\ pdrift[p])
       => /\ ~pgen[p]
          /\ registry'[pkind[p]][pproj[p]] = pexist[p]
          /\ (pres'[p] = "ok") =>
               /\ acct'[pkind[p]][pproj[p]] = pexist[p]
               /\ db'[pkind[p]][pproj[p]]]_vars

\* C9: when a provision call was interrupted and the next call for the same
\* project and kind runs to completion, the registry password logs in to the
\* engine and the password written to the environment equals it.
C9_RetryAfterCrashConverges ==
  \A p \in Procs :
    (ppc[p] = "idle" /\ pres[p] = "ok" /\ pafter[p] /\ ~drifted)
    => /\ Login(pkind[p], pproj[p], registry[pkind[p]][pproj[p]])
       /\ envPw[pkind[p]][pproj[p]] = registry[pkind[p]][pproj[p]]

\* Concurrent calls of provision, each caller for a project of its own.
CallerProject == [p \in Procs |-> IF p = 1 THEN "alpha" ELSE "beta"]

NextReg ==
  \E p \in Procs : (\E k \in Kinds : Provision(p, k, CallerProject[p])) \/ Step(p)

\* C23: once the concurrent calls for different projects have all returned,
\* the registry holds the entry every successful call wrote.
C23_NoLostRegistryUpdate ==
  (\A p \in Procs : ppc[p] = "idle")
    => \A p \in Procs :
         (pres[p] = "ok" /\ pproj[p] = CallerProject[p])
           => registry[pkind[p]][pproj[p]] # 0

\* C32: while the registry has a password for the call's database, the
\* account exists and login with that password succeeds, a provision call
\* issues neither an account creation nor a password reset to the engine and
\* leaves the password of the registry entry as it is.
C32_ConvergedIsNoOp ==
  [][\A p \in Procs :
       LET k == pkind[p]
           j == pproj[p]
       IN  (ppc[p] # "idle" /\ registry[k][j] # 0 /\ acct[k][j] # 0
              /\ Login(k, j, registry[k][j]))
           => /\ ~(MySqlCreate(p) \/ PostgresCreateUser(p))
              /\ presets'[p] <= presets[p]
              /\ registry'[k][j] = registry[k][j]]_vars

MaxKey == 3

\* Values a secret can hold.
MaxData == 2

\* Values crypto.randomBytes() returns for a salt or an iv.
MaxRand == 1

\* Emails and passwords of the npm credentials are 1..MaxCred.
MaxCred == 2

Data == 1..MaxData
Rand == 1..MaxRand

\* No command of the vault depends on the value of a salt or an iv: in the
\* commands one value stands for what randomBytes() returns.
VaultRand == {1}

\* JavaScript null: what retrieve() returns for a name without a file.
Null == 0 - 1

Values == Data \cup {Null}

\* Names are sequences of pieces of text: the npm credentials, and the
\* credentials `${options.name}_db` of a create called with the name "app.enc".
Names == {<<"npm_credentials">>, <<"app", ".enc", "_db">>}

\* path.join(secretsDir, `${name}.enc`)
fileName(n) == n \o <<".enc">>

RECURSIVE replaceFirst(_, _)
\* String.prototype.replace(pattern, '') with a string pattern: the first
\* occurrence is removed.
replaceFirst(s, t) ==
  IF s = <<>> THEN <<>>
  ELSE IF Head(s) = t THEN Tail(s)
  ELSE <<Head(s)>> \o replaceFirst(Tail(s), t)

\* f.endsWith('.enc')
endsWith(f, t) == Len(f) > 0 /\ f[Len(f)] = t

\* The name list() reports for a file of the secrets directory.
listedName(f) == replaceFirst(f, ".enc")

\* Every name a file can get: the callers' names and the names that list()
\* reports for their files (rotateKey stores under those).
AllNames == Names \cup {listedName(fileName(n)) : n \in Names}
              \cup {dbSecretName(OptionsName)}

\* A serialisation that keeps the kind of the value only.
stringify_Lossy(x) == IF x = Null THEN <<"null", 0>> ELSE <<"number", 1>>

\* JSON.stringify / JSON.parse on the values a secret can hold.
stringify(x) == IF x = Null THEN <<"null", 0>> ELSE <<"number", x>>

Garbage == <<"garbage", 0>>

\* JSON.parse throws on a text that is no JSON.
parse(t) == IF \E x \in Values : stringify(x) = t
            THEN [ok |-> TRUE, value |-> CHOOSE x \in Values : stringify(x) = t]
            ELSE [ok |-> FALSE, value |-> 0]

\* deriveKey(masterKey, salt): PBKDF2, one key per master key and salt.
deriveKey(masterKey, salt) == <<masterKey, salt>>

\* AES-256-GCM.  The ciphertext is the text under the key stream of (key, iv);
\* update() under the same key and iv gives the text back, whatever the tag,
\* and bits flipped in the ciphertext are flipped in that text.  The tag
\* authenticates key, iv and ciphertext.
cipherUpdate(key, iv, text) == [k |-> key, iv |-> iv, text |-> text]

getAuthTag(key, iv, ct) == <<key, iv, ct>>

decipherUpdate(key, iv, ct) == IF ct.k = key /\ ct.iv = iv THEN ct.text ELSE Garbage

\* encrypt(data) under the master key ensureKey() returned, with the salt and
\* iv randomBytes() returned: salt + iv + authTag + encrypted.
encrypt(masterKey, salt, iv, data) ==
  LET key == deriveKey(masterKey, salt)
      encrypted == cipherUpdate(key, iv, stringify(data))
  IN  [salt |-> salt, iv |-> iv, tag |-> getAuthTag(key, iv, encrypted),
       ct |-> encrypted]

\* What decrypt() does without the check of the tag in decipher.final().
decrypt_NoFinal(blob, masterKey) ==
  LET key == deriveKey(masterKey, blob.salt)
      decrypted == decipherUpdate(key, blob.iv, blob.ct)
  IN  [ok |-> parse(decrypted).ok, out |-> parse(decrypted).value]

\* decrypt(blob) under the master key ensureKey() returned: the components
\* are extracted, update() deciphers, final() throws unless the tag matches,
\* and only then the text is parsed and returned.
decrypt(blob, masterKey) ==
  LET key == deriveKey(masterKey, blob.salt)
      decrypted == decipherUpdate(key, blob.iv, blob.ct)
  IN  IF blob.tag = getAuthTag(key, blob.iv, blob.ct) /\ parse(decrypted).ok
      THEN [ok |-> TRUE, out |-> parse(decrypted).value]
      ELSE [ok |-> FALSE, out |-> 0]

Decryptable(blob, masterKey) == masterKey # 0 /\ decrypt(blob, masterKey).ok

\* Lengths in bytes of the parts of a blob.
SALT_LENGTH == 64

IV_LENGTH == 16

AUTH_TAG_LENGTH == 16

\* Bytes of a JSON text in utf8, which is the length of its ciphertext under
\* GCM: "null" is four characters, a number of one digit is one.
byteLength(text) == IF text[1] = "null" THEN 4 ELSE 1

\* n bytes of one part of a blob.
bytes(n, part) == [i \in 1..n |-> part]

\* Buffer.prototype.subarray(start, end): the bytes start .. end-1.
subarray(data, start, end) == SubSeq(data, start + 1, end)

\* The buffer encrypt() encodes and returns, byte by byte, each byte under the
\* name of the part it belongs to: Buffer.concat([salt, iv, authTag, encrypted])
\* with the salt and the iv as long as randomBytes() made them.
blobBytes(blob) ==
  bytes(SALT_LENGTH, "salt") \o bytes(IV_LENGTH, "iv")
    \o bytes(AUTH_TAG_LENGTH, "authTag")
    \o bytes(byteLength(blob.ct.text), "encrypted")

\* The components decrypt() extracts from the decoded buffer.
components(data) ==
  [salt |-> subarray(data, 0, SALT_LENGTH),
   iv |-> subarray(data, SALT_LENGTH, SALT_LENGTH + IV_LENGTH),
   authTag |-> subarray(data, SALT_LENGTH + IV_LENGTH,
                        SALT_LENGTH + IV_LENGTH + AUTH_TAG_LENGTH),
   encrypted |-> subarray(data, SALT_LENGTH + IV_LENGTH + AUTH_TAG_LENGTH,
                          Len(data))]

\* list(): readdir, the files ending in .enc, with '.enc' replaced by ''.
list == {listedName(fileName(n)) :
           n \in {m \in AllNames : files[m] # NoBlob /\ endsWith(fileName(m), ".enc")}}

InitV ==
  /\ keyFile = 0
  /\ files = [n \in AllNames |-> NoBlob]
  /\ nextKey = 1
  /\ vpc = "idle"
  /\ vop = "none"
  /\ vres = "none"
  /\ vname = <<"npm_credentials">>
  /\ vdata = 0
  /\ vblob = NoBlob
  /\ vout = 0
  /\ rnames = {}
  /\ rsecrets = [n \in AllNames |-> 0]
  /\ stored = [n \in AllNames |-> 0]
  /\ kpc = [p \in Procs |-> "idle"]
  /\ kkey = [p \in Procs |-> 0]
  /\ kname = [p \in Procs |-> <<"npm_credentials">>]
  /\ kdata = [p \in Procs |-> 0]

\* The command returns or dies: its locals go out of scope.
VaultReturn(r) ==
  /\ vpc' = "idle"
  /\ vres' = r
  /\ vdata' = 0
  /\ vblob' = NoBlob
  /\ rnames' = {}
  /\ rsecrets' = [n \in AllNames |-> 0]

\* ensureKey(): read the key file, or generate a key and write the file.
EnsureKey ==
  IF keyFile # 0
  THEN UNCHANGED <<keyFile, nextKey>>
  ELSE nextKey <= MaxKey /\ keyFile' = nextKey /\ nextKey' = nextKey + 1

\* store(name, data), first half: encrypt(data).
StoreEncrypt(n, x) ==
  /\ vpc = "idle"
  /\ EnsureKey
  /\ vop' = "store"
  /\ vname' = n
  /\ vdata' = x
  /\ \E salt \in VaultRand, iv \in VaultRand : vblob' = encrypt(keyFile', salt, iv, x)
  /\ vpc' = "s_write"
  /\ vout' = 0
  /\ UNCHANGED <<files, vres, rnames, rsecrets, stored>>
  /\ UNCHANGED <<varsD, varsP, keyVars, cryptVars, npmVars>>

\* store(name, data), second half: writeFile of the blob.
StoreWrite ==
  /\ vpc = "s_write"
  /\ files' = [files EXCEPT ![vname] = vblob]
  /\ stored' = [stored EXCEPT ![vname] = vdata]
  /\ VaultReturn("ok")
  /\ UNCHANGED <<keyFile, nextKey, vop, vname, vout>>
  /\ UNCHANGED <<varsD, varsP, keyVars, cryptVars, npmVars>>

\* retrieve(name): null without a file; otherwise decrypt of the file, which
\* throws when the blob does not open under the key in the key file.
Retrieve(n) ==
  /\ vpc = "idle"
  /\ vop' = "retrieve"
  /\ vname' = n
  /\ IF files[n] = NoBlob
     THEN /\ vout' = Null
          /\ VaultReturn("ok")
          /\ UNCHANGED <<keyFile, nextKey>>
     ELSE /\ EnsureKey
          /\ IF decrypt(files[n], keyFile').ok
             THEN vout' = decrypt(files[n], keyFile').out /\ VaultReturn("ok")
             ELSE vout' = 0 /\ VaultReturn("error")
  /\ UNCHANGED <<files, stored>>
  /\ UNCHANGED <<varsD, varsP, keyVars, cryptVars, npmVars>>

\* delete(name).
Delete(n) ==
  /\ vpc = "idle"
  /\ files[n] # NoBlob
  /\ files' = [files EXCEPT ![n] = NoBlob]
  /\ stored' = [stored EXCEPT ![n] = 0]
  /\ vop' = "delete"
  /\ vname' = n
  /\ vout' = 0
  /\ VaultReturn("ok")
  /\ UNCHANGED <<keyFile, nextKey>>
  /\ UNCHANGED <<varsD, varsP, keyVars, cryptVars, npmVars>>

\* rotateKey: names = list().
RotateList ==
  /\ vpc = "idle"
  /\ vop' = "rotate"
  /\ rnames' = list
  /\ vpc' = "r_retrieve"
  /\ vout' = 0
  /\ UNCHANGED <<keyFile, files, nextKey, vres, vname, vdata, vblob, rsecrets,
                 stored>>
  /\ UNCHANGED <<varsD, varsP, keyVars, cryptVars, npmVars>>

\* rotateKey, first loop: secrets[name] = retrieve(name).
RotateRetrieve ==
  /\ vpc = "r_retrieve"
  /\ \E n \in rnames :
       IF files[n] = NoBlob
       THEN /\ rsecrets' = [rsecrets EXCEPT ![n] = Null]
            /\ rnames' = rnames \ {n}
            /\ UNCHANGED <<keyFile, nextKey, vpc, vres, vdata, vblob>>
       ELSE /\ EnsureKey
            /\ IF decrypt(files[n], keyFile').ok
               THEN /\ rsecrets' = [rsecrets EXCEPT ![n] = decrypt(files[n], keyFile').out]
                    /\ rnames' = rnames \ {n}
                    /\ UNCHANGED <<vpc, vres, vdata, vblob>>
               ELSE VaultReturn("error")
  /\ UNCHANGED <<files, vop, vname, vout, stored>>
  /\ UNCHANGED <<varsD, varsP, keyVars, cryptVars, npmVars>>

\* rotateKey: the new key is generated and written over the key file.
RotateNewKey ==
  /\ vpc = "r_retrieve"
  /\ rnames = {}
  /\ nextKey <= MaxKey
  /\ keyFile' = nextKey
  /\ nextKey' = nextKey + 1
  /\ rnames' = {n \in AllNames : rsecrets[n] # 0}
  /\ vpc' = "r_store"
  /\ UNCHANGED <<files, vop, vres, vname, vdata, vblob, vout, rsecrets, stored>>
  /\ UNCHANGED <<varsD, varsP, keyVars, cryptVars, npmVars>>

\* rotateKey, second loop: store(name, data) under the key now in the file.
RotateStore ==
  /\ vpc = "r_store"
  /\ \E n \in rnames, salt \in VaultRand, iv \in VaultRand :
       /\ files' = [files EXCEPT ![n] = encrypt(keyFile, salt, iv, rsecrets[n])]
       /\ rnames' = rnames \ {n}
  /\ UNCHANGED <<keyFile, nextKey, vpc, vop, vres, vname, vdata, vblob, vout,
                 rsecrets, stored>>
  /\ UNCHANGED <<varsD, varsP, keyVars, cryptVars, npmVars>>

\* rotateKey, second loop: a writeFile throws (disk full, permissions).
RotateStoreFails ==
  /\ vpc = "r_store"
  /\ rnames # {}
  /\ VaultReturn("error")
  /\ UNCHANGED <<keyFile, files, nextKey, vop, vname, vout, stored>>
  /\ UNCHANGED <<varsD, varsP, keyVars, cryptVars, npmVars>>

\* rotateKey: return true.
RotateDone ==
  /\ vpc = "r_store"
  /\ rnames = {}
  /\ VaultReturn("ok")
  /\ UNCHANGED <<keyFile, files, nextKey, vop, vname, vout, stored>>
  /\ UNCHANGED <<varsD, varsP, keyVars, cryptVars, npmVars>>

\* The process running the command is killed between two steps.
VaultCrash ==
  /\ vpc # "idle"
  /\ VaultReturn("crashed")
  /\ UNCHANGED <<keyFile, files, nextKey, vop, vname, vout, stored>>
  /\ UNCHANGED <<varsD, varsP, keyVars, cryptVars, npmVars>>

NextVault ==
  \/ \E n \in Names, x \in Data : StoreEncrypt(n, x)
  \/ StoreWrite
  \/ \E n \in Names : Retrieve(n)
  \/ \E n \in Names : Delete(n)
  \/ RotateList \/ RotateRetrieve \/ RotateNewKey \/ RotateStore
  \/ RotateStoreFails \/ RotateDone \/ VaultCrash

\* ------------------------------------------------------------------------
\* Secrets vault: store() called by concurrent processes.  ensureKey is a
\* pathExists, then a readFile or a writeFile; each is one step.
\* ------------------------------------------------------------------------

seqVars == <<vpc, vop, vres, vname, vdata, vblob, vout, rnames, rsecrets>>

\* store(name, data) -> encrypt(data) -> ensureKey().
KeyStart(p, n, x) ==
  /\ kpc[p] = "idle"
  /\ kpc' = [kpc EXCEPT ![p] = "k_exists"]
  /\ kname' = [kname EXCEPT ![p] = n]
  /\ kdata' = [kdata EXCEPT ![p] = x]
  /\ UNCHANGED <<keyFile, files, nextKey, stored, kkey, seqVars>>
  /\ UNCHANGED <<varsD, varsP, cryptVars, npmVars>>

\* ensureKey: pathExists(keyFile); without a file the key is generated.
KeyExists(p) ==
  /\ kpc[p] = "k_exists"
  /\ IF keyFile # 0
     THEN /\ kpc' = [kpc EXCEPT ![p] = "k_read"]
          /\ UNCHANGED <<kkey, nextKey>>
     ELSE /\ nextKey <= MaxKey
          /\ kkey' = [kkey EXCEPT ![p] = nextKey]
          /\ nextKey' = nextKey + 1
          /\ kpc' = [kpc EXCEPT ![p] = "k_write"]
  /\ UNCHANGED <<keyFile, files, stored, kname, kdata, seqVars>>
  /\ UNCHANGED <<varsD, varsP, cryptVars, npmVars>>

\* ensureKey: readFile(keyFile) and return.
KeyRead(p) ==
  /\ kpc[p] = "k_read"
  /\ kkey' = [kkey EXCEPT ![p] = keyFile]
  /\ kpc' = [kpc EXCEPT ![p] = "k_store"]
  /\ UNCHANGED <<keyFile, files, nextKey, stored, kname, kdata, seqVars>>
  /\ UNCHANGED <<varsD, varsP, cryptVars, npmVars>>

\* ensureKey: writeFile(keyFile, key) and return.
KeyWrite(p) ==
  /\ kpc[p] = "k_write"
  /\ keyFile' = kkey[p]
  /\ kpc' = [kpc EXCEPT ![p] = "k_store"]
  /\ UNCHANGED <<files, nextKey, stored, kkey, kname, kdata, seqVars>>
  /\ UNCHANGED <<varsD, varsP, cryptVars, npmVars>>

\* The rest of encrypt under the key ensureKey returned, and the writeFile of
\* store.
KeyStore(p) ==
  /\ kpc[p] = "k_store"
  /\ \E salt \in VaultRand, iv \in VaultRand :
       files' = [files EXCEPT ![kname[p]] = encrypt(kkey[p], salt, iv, kdata[p])]
  /\ stored' = [stored EXCEPT ![kname[p]] = kdata[p]]
  /\ kpc' = [kpc EXCEPT ![p] = "idle"]
  /\ kkey' = [kkey EXCEPT ![p] = 0]
  /\ kdata' = [kdata EXCEPT ![p] = 0]
  /\ UNCHANGED <<keyFile, nextKey, kname, seqVars>>
  /\ UNCHANGED <<varsD, varsP, cryptVars, npmVars>>

NextKeys ==
  \E p \in Procs :
    \/ \E n \in Names, x \in Data : KeyStart(p, n, x)
    \/ KeyExists(p) \/ KeyRead(p) \/ KeyWrite(p) \/ KeyStore(p)

\* rotateKey() in one process while another process calls store() for the
\* npm credentials; no call fails.
NextRotateRace ==
  \/ \E x \in Data : KeyStart(1, <<"npm_credentials">>, x)
  \/ KeyExists(1) \/ KeyRead(1) \/ KeyWrite(1) \/ KeyStore(1)
  \/ RotateList \/ RotateRetrieve \/ RotateNewKey \/ RotateStore \/ RotateDone

\* ------------------------------------------------------------------------
\* Secrets vault: encrypt and decrypt on their own.  A value is encrypted
\* under a master key; the blob is then left alone, or its ciphertext or its
\* tag is changed; decrypt runs under some master key.
\* ------------------------------------------------------------------------

Keys == 1..MaxKey

Texts == {stringify(x) : x \in Values} \cup {Garbage}

Tags == {getAuthTag(deriveKey(k, s), i, cipherUpdate(deriveKey(k, s), i, t)) :
           k \in Keys, s \in Rand, i \in Rand, t \in Texts}

NoOut == [ok |-> FALSE, out |-> 0]

\* Nothing encrypted: the state of these variables in the other specifications.
InitCryptIdle ==
  /\ cstage = "none"
  /\ cmk = 0 /\ csalt = 0 /\ civ = 0 /\ cx = 0
  /\ cblob = NoBlob
  /\ cdk = 0
  /\ cout = NoOut

\* The arguments of encrypt: any value, master key, salt and iv.
InitCrypt ==
  /\ cstage = "input"
  /\ cmk \in Keys /\ csalt \in Rand /\ civ \in Rand /\ cx \in Values
  /\ cblob = NoBlob
  /\ cdk = 0
  /\ cout = NoOut

CryptEncrypt ==
  /\ cstage = "input"
  /\ cblob' = encrypt(cmk, csalt, civ, cx)
  /\ cstage' = "blob"
  /\ UNCHANGED <<cmk, csalt, civ, cx, cdk, cout>>
  /\ UNCHANGED <<varsD, varsP, keyFile, files, nextKey, stored, seqVars, keyVars,
                 npmVars>>

\* Bits of the ciphertext are flipped: it is the ciphertext of another text.
CryptTamperCiphertext(t) ==
  /\ cstage = "blob"
  /\ t # cblob.ct.text
  /\ cblob' = [cblob EXCEPT !.ct.text = t]
  /\ cstage' = "tampered"
  /\ UNCHANGED <<cmk, csalt, civ, cx, cdk, cout>>
  /\ UNCHANGED <<varsD, varsP, keyFile, files, nextKey, stored, seqVars, keyVars,
                 npmVars>>

\* Bits of the tag are flipped: it is another tag.
CryptTamperTag(g) ==
  /\ cstage = "blob"
  /\ g # cblob.tag
  /\ cblob' = [cblob EXCEPT !.tag = g]
  /\ cstage' = "tampered"
  /\ UNCHANGED <<cmk, csalt, civ, cx, cdk, cout>>
  /\ UNCHANGED <<varsD, varsP, keyFile, files, nextKey, stored, seqVars, keyVars,
                 npmVars>>

\* decrypt(blob) with master key k in the key file.
CryptDecrypt(k) ==
  /\ cstage \in {"blob", "tampered"}
  /\ cdk' = k
  /\ cout' = decrypt(cblob, k)
  /\ cstage' = IF cstage = "blob" THEN "done" ELSE "done_tampered"
  /\ UNCHANGED <<cmk, csalt, civ, cx, cblob>>
  /\ UNCHANGED <<varsD, varsP, keyFile, files, nextKey, stored, seqVars, keyVars,
                 npmVars>>

NextCrypt ==
  \/ CryptEncrypt
  \/ \E t \in Texts : CryptTamperCiphertext(t)
  \/ \E g \in Tags : CryptTamperTag(g)
  \/ \E k \in Keys : CryptDecrypt(k)

\* ------------------------------------------------------------------------
\* Secrets vault: properties
\* ------------------------------------------------------------------------

\* C10: when rotateKey has failed or was interrupted, at whatever point,
\* every stored secret opens under the master key that is in the key file.
C10_RotateAllOrNothing ==
  (vpc = "idle" /\ vop = "rotate" /\ vres \in {"error", "crashed"})
  => \A n \in AllNames : files[n] # NoBlob => Decryptable(files[n], keyFile)

\* C11: after a completed rotateKey, every secret a caller has stored is
\* retrievable and the value retrieved is the value that was stored.
C11_RotateKeepsSecrets ==
  (vpc = "idle" /\ vop = "rotate" /\ vres = "ok")
  => \A n \in AllNames :
       stored[n] # 0 => /\ files[n] # NoBlob
                        /\ decrypt(files[n], keyFile).ok
                        /\ decrypt(files[n], keyFile).out = stored[n]


\* C38: when a store(name, x) and a rotateKey() that ran at the same time
\* have both finished, the secret opens under the master key in the key file
\* and holds x, the value stored last under the name.
C38_StoreSurvivesRotation ==
  (vpc = "idle" /\ vop = "rotate" /\ vres = "ok" /\ kpc[1] = "idle")
  => \A n \in AllNames :
       stored[n] # 0 => /\ files[n] # NoBlob
                        /\ decrypt(files[n], keyFile).ok
                        /\ decrypt(files[n], keyFile).out = stored[n]

\* C12: a key file, once created, is never overwritten by ensureKey, and the
\* key ensureKey has returned to a caller is the key in the key file, so
\* concurrent callers all hold the persisted key.
C12_EnsureKeyIdempotent ==
  [][/\ keyFile # 0 => keyFile' = keyFile
     /\ \A p \in Procs : kpc'[p] = "k_store" => kkey'[p] = keyFile']_vars

\* C13: decrypt of a blob whose ciphertext or tag was changed, or under a
\* master key other than the one it was encrypted under, fails and returns
\* nothing of the plaintext.
C13_DecryptFailsClosed ==
  (cstage = "done_tampered" \/ (cstage = "done" /\ cdk # cmk))
  => (~cout.ok /\ cout.out = 0)

\* C13 witness: a blob with flipped ciphertext bits was given to decrypt
\* under the right master key, and decrypt failed.
C13_Witness ==
  /\ cstage = "done_tampered" /\ cdk = cmk
  /\ cblob.tag = encrypt(cmk, csalt, civ, cx).tag
  /\ cblob.ct.text \in {stringify(x) : x \in Values}
  /\ ~cout.ok

C28_BlobLayout ==
  cstage = "blob"
  => LET data == blobBytes(cblob)
         parts == components(data)
     IN  /\ subarray(data, 0, 64) = bytes(64, "salt")
         /\ subarray(data, 64, 76) = bytes(12, "iv")
         /\ subarray(data, 76, 92) = bytes(16, "authTag")
         /\ \A i \in 93..Len(data) : data[i] = "encrypted"
         /\ \A i \in 1..92 : data[i] # "encrypted"
         /\ Len(parts.salt) = 64 /\ Len(parts.iv) = 12
         /\ Len(parts.authTag) = 16
         /\ parts.encrypted = subarray(data, 92, Len(data))


\* ------------------------------------------------------------------------
\* Credential resolution (services/secrets-config.js)
\* ------------------------------------------------------------------------

\* An email or a password: 0 is unset, undefined or the empty string.
Creds == 0..MaxCred

NoEntry == [has |-> FALSE, email |-> 0, password |-> 0]

\* config.json: no file, or npmEmail and npmPassword next to the other
\* settings (rest).
NoConfig == [has |-> FALSE, email |-> 0, password |-> 0, rest |-> 0]
Entries == {NoConfig} \cup [has : {TRUE}, email : Creds, password : Creds, rest : {1}]

\* Mutation of withoutCredentials: only npmEmail is deleted.
withoutCredentials_KeepPassword(config) == [config EXCEPT !.email = 0]

\* delete config.npmEmail; delete config.npmPassword
withoutCredentials(config) == [config EXCEPT !.email = 0, !.password = 0]

NoResult == [kind |-> "none", email |-> 0, password |-> 0]
NullResult == [kind |-> "null", email |-> 0, password |-> 0]
Found(e, p) == [kind |-> "creds", email |-> e, password |-> p]

\* secrets.retrieve('npm_credentials'): null without a file, throws when the
\* file does not open, the stored object otherwise.
retrieveNpm(entry, opens) ==
  [throws |-> entry.has /\ ~opens, has |-> entry.has /\ opens,
   email |-> entry.email, password |-> entry.password]

\* Mutation of getNpmCredentials: config.json is read before the vault.
getNpmCredentials_LegacyFirst(env, retrieved, config) ==
  IF env.email # 0 /\ env.password # 0
  THEN Found(env.email, env.password)
  ELSE IF config.has /\ config.email # 0 /\ config.password # 0
  THEN Found(config.email, config.password)
  ELSE IF ~retrieved.throws /\ retrieved.has
          /\ retrieved.email # 0 /\ retrieved.password # 0
  THEN Found(retrieved.email, retrieved.password)
  ELSE NullResult

\* getNpmCredentials(): environment, then the vault (a throw of retrieve is
\* caught), then config.json.
getNpmCredentials(env, retrieved, config) ==
  IF env.email # 0 /\ env.password # 0
  THEN Found(env.email, env.password)
  ELSE IF ~retrieved.throws /\ retrieved.has
          /\ retrieved.email # 0 /\ retrieved.password # 0
  THEN Found(retrieved.email, retrieved.password)
  ELSE IF config.has /\ config.email # 0 /\ config.password # 0
  THEN Found(config.email, config.password)
  ELSE NullResult

\* Mutation of getCredentialSource: one of the two variables is enough.
getCredentialSource_EitherEnv(env, retrieved, config) ==
  IF env.email # 0 \/ env.password # 0 THEN "env"
  ELSE IF ~retrieved.throws /\ retrieved.has
          /\ retrieved.email # 0 /\ retrieved.password # 0 THEN "encrypted"
  ELSE IF config.has /\ config.email # 0 /\ config.password # 0 THEN "legacy"
  ELSE "none"

\* getCredentialSource()
getCredentialSource(env, retrieved, config) ==
  IF env.email # 0 /\ env.password # 0 THEN "env"
  ELSE IF ~retrieved.throws /\ retrieved.has
          /\ retrieved.email # 0 /\ retrieved.password # 0 THEN "encrypted"
  ELSE IF config.has /\ config.email # 0 /\ config.password # 0 THEN "legacy"
  ELSE "none"

InitNpm ==
  /\ envNpm = [email |-> 0, password |-> 0]
  /\ vaultNpm = NoEntry
  /\ vaultOpens = TRUE
  /\ legacyNpm = NoConfig
  /\ npmOut = NoResult
  /\ npmSrc = "uncalled"
  /\ warned = FALSE
  /\ migrated = "uncalled"

npmOthers == <<varsD, varsP, keyFile, files, nextKey, stored, seqVars, keyVars,
               cryptVars>>

\* What the calls returned is dropped with a change of a source.
Forget == npmOut' = NoResult /\ npmSrc' = "uncalled" /\ migrated' = "uncalled"

\* The environment the tool is started in.
SetEnv(e, p) ==
  /\ envNpm' = [email |-> e, password |-> p]
  /\ Forget
  /\ UNCHANGED <<vaultNpm, vaultOpens, legacyNpm, warned>>
  /\ UNCHANGED npmOthers

\* setNpmCredentials(email, password)
SetNpmCredentials(e, p) ==
  /\ vaultNpm' = [has |-> TRUE, email |-> e, password |-> p]
  /\ vaultOpens' = TRUE
  /\ Forget
  /\ UNCHANGED <<envNpm, legacyNpm, warned>>
  /\ UNCHANGED npmOthers

\* The file of npm_credentials stops opening under the key file (a rotation
\* that failed half way, a damaged file).
VaultUnreadable ==
  /\ vaultNpm.has /\ vaultOpens
  /\ vaultOpens' = FALSE
  /\ Forget
  /\ UNCHANGED <<envNpm, vaultNpm, legacyNpm, warned>>
  /\ UNCHANGED npmOthers

\* config.json as an earlier version of the tool left it, or removed.
SetLegacy(c) ==
  /\ legacyNpm' = c
  /\ Forget
  /\ UNCHANGED <<envNpm, vaultNpm, vaultOpens, warned>>
  /\ UNCHANGED npmOthers

\* A call of getNpmCredentials(); the deprecation warning is shown once.
GetNpmCredentials ==
  /\ npmOut' = getNpmCredentials(envNpm, retrieveNpm(vaultNpm, vaultOpens), legacyNpm)
  /\ warned' = (warned \/ getCredentialSource(envNpm,
                   retrieveNpm(vaultNpm, vaultOpens), legacyNpm) = "legacy")
  /\ UNCHANGED <<envNpm, vaultNpm, vaultOpens, legacyNpm, npmSrc, migrated>>
  /\ UNCHANGED npmOthers

\* A call of getCredentialSource()
GetCredentialSource ==
  /\ npmSrc' = getCredentialSource(envNpm, retrieveNpm(vaultNpm, vaultOpens), legacyNpm)
  /\ UNCHANGED <<envNpm, vaultNpm, vaultOpens, legacyNpm, npmOut, warned,
                 migrated>>
  /\ UNCHANGED npmOthers

\* migrateLegacyCredentials(): false without a complete pair in config.json;
\* otherwise setNpmCredentials, then config.json rewritten without the pair.
MigrateLegacyCredentials ==
  /\ IF ~(legacyNpm.has /\ legacyNpm.email # 0 /\ legacyNpm.password # 0)
     THEN /\ migrated' = "false"
          /\ UNCHANGED <<vaultNpm, vaultOpens, legacyNpm, npmOut, npmSrc>>
     ELSE /\ vaultNpm' = [has |-> TRUE, email |-> legacyNpm.email,
                          password |-> legacyNpm.password]
          /\ vaultOpens' = TRUE
          /\ legacyNpm' = withoutCredentials(legacyNpm)
          /\ migrated' = "true"
          /\ npmOut' = NoResult /\ npmSrc' = "uncalled"
  /\ UNCHANGED <<envNpm, warned>>
  /\ UNCHANGED npmOthers

NextNpm ==
  \/ MigrateLegacyCredentials
  \/ \E e \in Creds, p \in Creds : SetEnv(e, p)
  \/ \E e \in Creds, p \in Creds : SetNpmCredentials(e, p)
  \/ VaultUnreadable
  \/ \E c \in Entries : SetLegacy(c)
  \/ GetNpmCredentials
  \/ GetCredentialSource

\* The tiers in their order of priority, each as what it yields.
Tiers ==
  <<[has |-> TRUE, email |-> envNpm.email, password |-> envNpm.password],
    [has |-> vaultNpm.has /\ vaultOpens, email |-> vaultNpm.email,
     password |-> vaultNpm.password],
    legacyNpm>>

Complete(t) == t.has /\ t.email # 0 /\ t.password # 0

\* C20: getNpmCredentials returns the pair of the first tier, in the order
\* environment, vault, legacy, that holds both an email and a password, and
\* null exactly when no tier does.
C20_FirstCompleteTierWins ==
  npmOut # NoResult
    => LET holding == {i \in 1..3 : Complete(Tiers[i])}
       IN  IF holding = {}
           THEN npmOut = NullResult
           ELSE LET first == CHOOSE i \in holding : \A j \in holding : i <= j
                IN  npmOut = Found(Tiers[first].email, Tiers[first].password)

\* C20 witness: the environment holds only an email, the vault and config.json
\* hold different complete pairs, and the call returned the vault's.
C20_Witness ==
  /\ envNpm.email # 0 /\ envNpm.password = 0
  /\ Complete(Tiers[2]) /\ Complete(Tiers[3])
  /\ Tiers[2].email # Tiers[3].email
  /\ npmOut = Found(vaultNpm.email, vaultNpm.password)

\* C21: with the sources as they are, getCredentialSource names the tier
\* whose pair getNpmCredentials returns, and "none" exactly when it returns null.
C21_SourceMatchesCredentials ==
  (npmOut # NoResult /\ npmSrc # "uncalled")
    => /\ npmSrc \in {"env", "encrypted", "legacy", "none"}
       /\ (npmSrc = "none") <=> (npmOut = NullResult)
       /\ npmSrc = "env" => npmOut = Found(envNpm.email, envNpm.password)
       /\ npmSrc = "encrypted" => npmOut = Found(vaultNpm.email, vaultNpm.password)
       /\ npmSrc = "legacy" => npmOut = Found(legacyNpm.email, legacyNpm.password)

\* C21 witness: both calls were made while the vault entry did not open and
\* the environment held one variable only; config.json satisfied both.
C21_Witness ==
  /\ npmSrc = "legacy" /\ npmOut = Found(legacyNpm.email, legacyNpm.password)
  /\ vaultNpm.has /\ ~vaultOpens
  /\ envNpm.email = 0 /\ envNpm.password # 0

\* C22: migrateLegacyCredentials with a complete pair in config.json puts
\* exactly that pair in the vault, removes it from config.json and keeps the
\* other settings; without one it returns false and changes nothing; and the
\* reading calls leave the vault and config.json as they are.
C22_MigrateExplicitOneWay ==
  [][/\ MigrateLegacyCredentials
          => IF Complete(legacyNpm)
             THEN /\ migrated' = "true"
                  /\ vaultNpm'.has /\ vaultOpens'
                  /\ vaultNpm'.email = legacyNpm.email
                  /\ vaultNpm'.password = legacyNpm.password
                  /\ legacyNpm'.has
                  /\ legacyNpm'.email = 0 /\ legacyNpm'.password = 0
                  /\ legacyNpm'.rest = legacyNpm.rest
             ELSE /\ migrated' = "false"
                  /\ UNCHANGED <<vaultNpm, vaultOpens, legacyNpm>>
     /\ (GetNpmCredentials \/ GetCredentialSource)
          => UNCHANGED <<vaultNpm, vaultOpens, legacyNpm>>]_vars

\* C22 witness: a migration has moved a pair with different email and
\* password into the vault and config.json keeps its other settings.
C22_Witness ==
  /\ migrated = "true"
  /\ vaultNpm.has /\ vaultNpm.email # vaultNpm.password
  /\ legacyNpm.has /\ legacyNpm.rest = 1 /\ ~Complete(legacyNpm)

\* C40: with no pair in the environment, getNpmCredentials returns after
\* migrateLegacyCredentials what it returned before it, whatever the vault
\* and config.json held when the migration was called.
C40_MigrateKeepsResolution ==
  [][(MigrateLegacyCredentials /\ ~(envNpm.email # 0 /\ envNpm.password # 0))
     => getNpmCredentials(envNpm', retrieveNpm(vaultNpm', vaultOpens'),
                          legacyNpm')
        = getNpmCredentials(envNpm, retrieveNpm(vaultNpm, vaultOpens),
                            legacyNpm)]_vars

\* ------------------------------------------------------------------------
\* Deployer.create with --db: provisioning and the stored credentials
\* ------------------------------------------------------------------------

dStepVars == <<clock, op, result, fsVars, image, inst, localVars, created,
               histVars, sideVars>>

\* options.db is an engine: dbCredentials = await dbService.provision(name, db)
CreateProvision(k) ==
  /\ pc = "c_config"
  /\ ProvisionCall(1, k, ProjectName)
  /\ pc' = "c_db"
  /\ UNCHANGED dStepVars
  /\ UNCHANGED <<varsV, sideVars>>

\* provision() runs inside create.
CreateProvisionStep ==
  /\ pc = "c_db"
  /\ Step(1)

\* provision() has returned the credentials, or has thrown.
CreateProvisioned ==
  /\ pc = "c_db" /\ ppc[1] = "idle"
  /\ pc' = IF pres[1] = "ok" THEN "c_env" ELSE "c_catch"
  /\ UNCHANGED dStepVars
  /\ UNCHANGED <<varsP, varsV, sideVars>>

\* generateEnvFile: .env written, then secrets.store(`${name}_db`, dbCredentials)
CreateStoreSecret ==
  /\ pc = "c_env"
  /\ EnsureKey
  /\ LET n == dbSecretName(OptionsName)
         x == envPw[pkind[1]][pproj[1]]
     IN  /\ \E salt \in VaultRand, iv \in VaultRand :
               files' = [files EXCEPT ![n] = encrypt(keyFile', salt, iv, x)]
         /\ stored' = [stored EXCEPT ![n] = x]
  /\ pc' = "c_setup"
  /\ UNCHANGED dStepVars
  /\ UNCHANGED <<vpc, vop, vres, vname, vdata, vblob, vout, rnames, rsecrets,
                 keyVars, cryptVars, npmVars>>
  /\ UNCHANGED varsP

\* The database part of create for any project: after provision(name, db)
\* has returned, generateEnvFile stores the credentials it returned.
GenerateEnvFile ==
  /\ ppc[1] = "idle" /\ pres[1] = "ok"
  /\ EnsureKey
  /\ LET n == dbSecretName(OptionsName)
         x == envPw[pkind[1]][pproj[1]]
     IN  /\ \E salt \in VaultRand, iv \in VaultRand :
               files' = [files EXCEPT ![n] = encrypt(keyFile', salt, iv, x)]
         /\ stored' = [stored EXCEPT ![n] = x]
  /\ UNCHANGED <<vpc, vop, vres, vname, vdata, vblob, vout, rnames, rsecrets,
                 keyVars, cryptVars, npmVars>>
  /\ UNCHANGED <<varsD, varsP>>

\* Creates with a database, of one project after the other; an account's
\* password can be changed by hand in between.
NextSecretNames ==
  \/ \E j \in Projects, k \in Kinds : Provision(1, k, j)
  \/ Step(1)
  \/ GenerateEnvFile
  \/ \E j \in Projects, k \in Kinds : Drift(k, j)

\* C37: the step of create that stores a project's database credentials in
\* the vault never replaces a secret that holds the database credentials of
\* another project.
C37_DbSecretPerProject ==
  [][GenerateEnvFile
     => \A n \in AllNames :
          (files[n] # NoBlob /\ files'[n] # files[n])
          => stored[n] \in {registry[k][pproj[1]] : k \in Kinds}]_vars

\* The lifecycle commands on a project deployed without a database.
NextD == Tick \/ ContainerStarts \/ CreateExists \/ CreateStart \/ CreateClone
         \/ CreateNoType \/ CreateConfig \/ CreateLink \/ CreateBuild
         \/ CreateUp \/ CreateWait \/ CreateMeta \/ CreateFail \/ CreateCatch
         \/ UpdateNotFound \/ UpdateStart \/ UpdateClone \/ UpdateTemp
         \/ UpdateBuild \/ UpdateUpNew \/ UpdateWait \/ UpdateLink
         \/ UpdateRename \/ UpdateMove \/ UpdateDown \/ UpdateUp
         \/ UpdateMeta \/ UpdateCleanup \/ UpdateFail
         \/ RollbackNotFound \/ (\E v \in {0} \cup Versions : RollbackStart(v))
         \/ RollbackCompose \/ RollbackDown \/ RollbackBuild \/ RollbackUp
         \/ RollbackUnlink \/ RollbackLink \/ RollbackMeta \/ RollbackWait
         \/ RollbackFail

\* The lifecycle commands and remove.
NextList == NextD \/ RemoveNotFound \/ RemoveStart \/ RemoveDown \/ RemoveFiles
            \/ RemoveFromRegistry \/ RemoveFail

\* The commands that gate on waitForHealth before they cut over.
NextGate == Tick \/ ContainerStarts \/ CreateExists \/ CreateStart \/ CreateClone
            \/ CreateNoType \/ CreateConfig \/ CreateLink \/ CreateBuild
            \/ CreateUp \/ CreateWait \/ CreateMeta \/ CreateFail \/ CreateCatch
            \/ UpdateNotFound \/ UpdateStart \/ UpdateClone \/ UpdateTemp
            \/ UpdateBuild \/ UpdateUpNew \/ UpdateWait \/ UpdateLink
            \/ UpdateRename \/ UpdateMove \/ UpdateDown \/ UpdateUp
            \/ UpdateMeta \/ UpdateCleanup \/ UpdateFail

\* create, with or without --db, called again after it failed.
NextCreate == Tick \/ ContainerStarts \/ CreateExists \/ CreateStart
              \/ CreateClone \/ CreateNoType
              \/ (\E k \in Kinds : CreateProvision(k))
              \/ CreateProvisionStep \/ CreateProvisioned \/ CreateStoreSecret
              \/ CreateConfig \/ CreateLink \/ CreateBuild \/ CreateUp
              \/ CreateWait \/ CreateMeta \/ CreateFail \/ CreateCatch

\* C18: when create fails and returns, everything that call created is gone:
\* the project directory with its releases, the container it started, and
\* the registry entry and the stored secret of the database it provisioned.
C18_FailedCreateRemovesAll ==
  [][(op = "create" /\ pc = "c_catch" /\ pc' = "idle")
     => /\ ~exists' /\ releases' = {} /\ current' = 0
        /\ ~inst'.ex
        /\ registry' = pre.reg
        /\ files'[dbSecretName(OptionsName)] = pre.sec]_vars

\* The deployer at rest and the arguments of one encrypt call.
InitCryptSpec == InitD /\ InitCloneIdle /\ InitP /\ InitV /\ InitCrypt /\ InitNpm

InitCloneSpec == InitD /\ InitClone /\ InitP /\ InitV /\ InitCryptIdle /\ InitNpm

Init == InitD /\ InitCloneIdle /\ InitP /\ InitV /\ InitCryptIdle /\ InitNpm

Next == NextD

Spec == Init /\ [][Next]_vars

\* create and update; the polling loops of waitForHealth run on.
SpecLive == Init /\ [][NextGate]_vars /\ WF_vars(CreateWait) /\ WF_vars(UpdateWait)

SpecProv == Init /\ [][NextProv]_vars

SpecProvSeq == Init /\ [][NextProvSeq]_vars

SpecReg == Init /\ [][NextReg]_vars

SpecVault == Init /\ [][NextVault]_vars

SpecKeys == Init /\ [][NextKeys]_vars

SpecCreate == Init /\ [][NextCreate]_vars
SpecNpm == Init /\ [][NextNpm]_vars
SpecCrypt == InitCryptSpec /\ [][NextCrypt]_vars

SpecClone == InitCloneSpec /\ [][NextClone]_vars

SpecList == Init /\ [][NextList]_vars

SpecSecretNames == Init /\ [][NextSecretNames]_vars

SpecRotateRace == Init /\ [][NextRotateRace]_vars
====
